---- MODULE Spec2Model ----
(***************************************************************************)
(* A model of the chat application's cache coordination layer:             *)
(*   - RedisShardingService (backend/utils/redisShardingService.js): one   *)
(*     write target ("primary"), three read replicas, a round-robin read   *)
(*     cursor, writeThrough / readFromShard / delete;                      *)
(*   - MessageRepository (backend/repositories/messageRepository.js): the  *)
(*     cache-aside / write-through handlers over the document store.       *)
(*                                                                         *)
(* Every async function is split at its awaits: one action per await       *)
(* outcome.  A process p runs one call at a time; pc[p] is the handler's   *)
(* position, loc[p] its locals, sub[p] the coordinator call it awaits.     *)
(* Commands sent to one replica travel over that replica's single client   *)
(* connection and are executed in the order they were issued; pending[r]   *)
(* holds the detached (not awaited) writes still in flight to replica r.   *)
(***************************************************************************)
EXTENDS Integers, Sequences, FiniteSets, TLC

(***************************************************************************)
(* Program constants.                                                      *)
(***************************************************************************)
NumReplicas == 3
MaxRecent == 50
MaxPages == 10
TTL_MESSAGES == 3600
TTL_MESSAGE_BATCH == 1800
TTL_RECENT_MESSAGES == 600
TTL_MESSAGE_COUNT == 7200
DefaultTTL == 3600
DefaultBatchLimit == 30
DefaultRecentLimit == 20

(***************************************************************************)
(* Bounds of the model.                                                    *)
(***************************************************************************)
NumProcs == 2
NumRooms == 1
NumUsers == 1
MaxMsgs == 2
MaxCalls == 2
MaxFaults == 2
MaxExpiries == 1
MaxAppends == 60
MaxPending == 2

Procs == 1..NumProcs
\* the caller of the sequential scenarios
SeqProcs == {1}
Rooms == 1..NumRooms
Users == 1..NumUsers
MsgIds == 1..MaxMsgs
ReplicaIdx == 0..(NumReplicas - 1)

Min(a, b) == IF a < b THEN a ELSE b
Max(a, b) == IF a > b THEN a ELSE b

\* Array.prototype.slice(-n): the last n elements (all of them when n >= length).
SliceLast(s, n) == IF n <= 0 THEN s
                   ELSE SubSeq(s, Max(1, Len(s) - n + 1), Len(s))

\* Array.prototype.slice(0, n)
SliceFirst(s, n) == SubSeq(s, 1, Min(n, Len(s)))

\* Array.prototype.reverse()
Reverse(s) == [i \in 1..Len(s) |-> s[Len(s) + 1 - i]]

(***************************************************************************)
(* Cache keys.  `${ns}:${a}` or `${ns}:${a}:${b}` is the triple <<ns,a,b>>  *)
(* (b = 0 for the two-part keys).                                          *)
(***************************************************************************)
MessageKey(id) == <<"message", id, 0>>
BatchKey(roomId, page) == <<"messages", roomId, page>>
RecentKey(roomId) == <<"recent", roomId, 0>>
CountKey(roomId) == <<"msg_count", roomId, 0>>

(***************************************************************************)
(* Values.  A runtime value is a record tagged by t.  A timestamp is a     *)
(* Date object <<"Date", n>> in a document read from the store and the     *)
(* ISO string <<"iso", n>> once it went through JSON; an _id is an         *)
(* ObjectId <<"ObjectId", i>> and the hex string <<"hex", i>> after JSON.  *)
(***************************************************************************)
NullVal == [t |-> "null"]
NoTime == <<"null", 0>>
Num(n) == [t |-> "num", n |-> n]
MsgVal(m) == [t |-> "msg", m |-> m]
ListVal(s) == [t |-> "msgs", list |-> s]
BatchVal(msgs, more, oldest, at) ==
    [t |-> "batch", messages |-> msgs, hasMore |-> more,
     oldestTimestamp |-> oldest, cachedAt |-> at]

\* new Date(x).getTime() for a Date or an ISO string
TimeOf(x) == x[2]

\* Date.prototype.toJSON / ObjectId.prototype.toJSON
ScalarToJSON(x) == IF x[1] = "Date" THEN <<"iso", x[2]>>
                   ELSE IF x[1] = "ObjectId" THEN <<"hex", x[2]>>
                   ELSE x

MsgToJSON(m) == [m EXCEPT !.id = ScalarToJSON(m.id),
                          !.timestamp = ScalarToJSON(m.timestamp)]

\* The value JSON.parse(JSON.stringify(v)) yields.
JSONForm(v) ==
    CASE v.t = "msg" -> MsgVal(MsgToJSON(v.m))
      [] v.t = "msgs" -> ListVal([i \in 1..Len(v.list) |-> MsgToJSON(v.list[i])])
      [] v.t = "batch" ->
           BatchVal([i \in 1..Len(v.messages) |-> MsgToJSON(v.messages[i])],
                    v.hasMore, ScalarToJSON(v.oldestTimestamp), v.cachedAt)
      [] OTHER -> v

\* JSON.stringify(data): the text stored in a cache node.
JSONstringify(v) == [t |-> "json", v |-> JSONForm(v)]

\* the text handed back without parsing it
JSONparse_raw(text) == text

\* JSON.parse(text)
JSONparse(text) == text.v

(***************************************************************************)
(* A cache node: the keys it holds, each with its text and the TTL it was  *)
(* set with (wid is history: which writeThrough the text comes from).      *)
(***************************************************************************)
EmptyNode == [k \in {} |-> 0]

\* SETEX key ttl text
NodeSetEx(node, k, ttl, text, wid) ==
    [x \in DOMAIN node \cup {k} |->
        IF x = k THEN [text |-> text, ttl |-> ttl, wid |-> wid] ELSE node[x]]

\* DEL k1 k2 ...
NodeDel(node, ks) == [x \in DOMAIN node \ ks |-> node[x]]

\* GET key: is there a text, and which
NodeHas(node, k) == k \in DOMAIN node
NodeGet(node, k) == node[k].text

(***************************************************************************)
(* The document store: store[i] is the Message with _id i, created i-th;   *)
(* its timestamp is i.                                                     *)
(***************************************************************************)
NewDoc(roomId, id) == [room |-> roomId, ts |-> id, readers |-> <<>>, reactions |-> {}]

\* message.toObject() / .lean(): the document as a plain object.
ToObject(st, id) ==
    [id |-> <<"ObjectId", id>>, room |-> st[id].room,
     timestamp |-> <<"Date", st[id].ts>>,
     readers |-> st[id].readers, reactions |-> st[id].reactions]

RECURSIVE SortByTimestamp(_, _)
\* the ids of S as a sequence, ascending by timestamp
SortByTimestamp(st, S) ==
    IF S = {} THEN <<>>
    ELSE LET last == CHOOSE x \in S : \A y \in S : st[y].ts <= st[x].ts
         IN  Append(SortByTimestamp(st, S \ {last}), last)

\* Message.find(query).sort({timestamp: -1}).limit(n).lean()
\* query = {room: roomId} or {room: roomId, timestamp: {$lt: before}}; before = 0: no cursor
FindDesc(st, roomId, before, n) ==
    LET hit == {i \in 1..Len(st) : st[i].room = roomId /\ (before = 0 \/ st[i].ts < before)}
        desc == Reverse(SortByTimestamp(st, hit))
    IN  [i \in 1..Min(n, Len(desc)) |-> ToObject(st, desc[i])]

\* Message.countDocuments({room: roomId})
CountDocuments(st, roomId) ==
    Cardinality({i \in 1..Len(st) : st[i].room = roomId})

VARIABLES
    store,              \* the Message collection
    primary,            \* clusters.write
    replica,            \* readReplicas[0..2]
    pending,            \* per replica: detached SETEX commands in flight
    currentReadIndex,   \* the round-robin cursor
    pc,                 \* per process: position in its handler ("idle" when none)
    loc,                \* per process: the handler's arguments and locals
    sub,                \* per process: the coordinator call being awaited
    done,               \* per process: the outcome of its last completed call
    written,            \* history: per key, the last value a writeThrough returned success for
    wseq,               \* history: primary writes made by writeThrough so far
    calls,              \* calls started so far
    faults,             \* failures injected so far
    expiries,           \* TTL expiries so far
    adapter,            \* the RedisClusterClient singleton and the backends behind it
    socket,             \* the store behind utils/redisClient and the SocketStateService calls
    timer               \* the interval timers of RedisShardingService and their handles

vars == <<store, primary, replica, pending, currentReadIndex,
          pc, loc, sub, done, written, wseq, calls, faults, expiries, adapter, socket, timer>>

cacheVars == <<primary, replica, pending, currentReadIndex, written, wseq>>

\* the cache variables a call of getReadClient leaves alone
nodeVars == <<primary, replica, pending, written, wseq>>

NoSub == [fn |-> "none", state |-> "idle", key |-> <<"none", 0, 0>>, keys |-> {},
          data |-> NullVal, ttl |-> 0, todo |-> {}, wrote |-> FALSE,
          val |-> NullVal, served |-> -1, expect |-> NullVal, synced |-> FALSE]

\* the arguments and locals of a handler (roomIds, results and stage are those of
\* getBatchRecentMessages; since is the write count when it began); mutated, stored, queries, hit and cached
\* are history: has the call changed a cache node, has its authoritative store
\* operation succeeded, how many store queries it made, did it answer from the
\* cache, and what the cache read gave it
NoLoc == [op |-> "none", room |-> 0, id |-> 0, user |-> 0, page |-> 0, limit |-> 0,
          before |-> 0, kind |-> "none", reaction |-> "none", doc |-> NullVal, count |-> 0,
          roomIds |-> {}, results |-> <<>>, stage |-> <<>>, since |-> 0,
          mutated |-> FALSE, stored |-> FALSE, queries |-> 0,
          hit |-> FALSE, cached |-> NullVal]

NoDone == [call |-> NoLoc, status |-> "none", val |-> NullVal, at |-> 0]

\* a JavaScript string of the characters text, and a text that is not JSON
Str(text) == [t |-> "str", text |-> text]
RawText(s) == [t |-> "raw", s |-> s]

\* String(object): the placeholder left by a failed stringification
Placeholder == RawText("[object Object]")

\* the RedisClusterClient singleton before connect(): cluster (this.cluster) is
\* "null", "cluster" (an IORedis.Cluster) or "mock" (a MockRedisClient); configured
\* tells whether redisNodes names a node; kv is what the cluster nodes hold and
\* mock what the current MockRedisClient holds.  History: clustered (an
\* IORedis.Cluster was created), demoted (the error handler switched to the mock),
\* last (the last operation: its backend, key and result, and whether the value it
\* read was no JSON text).  quitting: a quit() awaits cluster.quit(); batch: the
\* position of a getCachedMessageBatch call
NoOp == [op |-> "none", key |-> <<"none", 0, 0>>, backend |-> "none", ret |-> NullVal,
         corrupt |-> FALSE]
NoBatch == [at |-> "idle", key |-> <<"none", 0, 0>>, backend |-> "none", corrupt |-> FALSE,
            ret |-> NullVal]
NoAdapter == [configured |-> TRUE, cluster |-> "null", useMock |-> FALSE,
              kv |-> EmptyNode, mock |-> EmptyNode, quitting |-> FALSE,
              clustered |-> FALSE, demoted |-> FALSE, last |-> NoOp, batch |-> NoBatch]

\* a SocketStateService call of one caller: its arguments (id, user, room, arg),
\* its position at, the session it read, the value it returned and, for the
\* cleanup calls, its sub-removals.  History: wrote (it changed the store),
\* failed (a client command it awaited was rejected), after (what its key held
\* when it returned), followed (a setStreamingSession wrote the key later)
NoCall == [op |-> "none", at |-> "idle", id |-> 0, user |-> 0, room |-> 0,
           arg |-> NullVal, session |-> NullVal, ret |-> "none", tasks |-> <<>>,
           wrote |-> FALSE, failed |-> FALSE, after |-> NullVal, followed |-> FALSE]

\* the store behind the client of utils/redisClient, and the callers
NoSocket == [kv |-> EmptyNode, run |-> [p \in Procs |-> NoCall]]

\* no interval timer has been created: monitoringInterval and cleanupInterval are
\* the handles kept (0 when none), active the timers setInterval created and
\* clearInterval has not cleared (each with the job it runs), created the number
\* of timers made so far.  History: last (the last call made), ticked (the timer
\* whose callback ran last)
NoTimer == [monitoringInterval |-> 0, cleanupInterval |-> 0, active |-> {},
            created |-> 0, last |-> "none", ticked |-> 0]

\* no call has begun
InitCallers ==
    /\ adapter = NoAdapter
    /\ socket = NoSocket
    /\ timer = NoTimer
    /\ pc = [p \in Procs |-> "idle"]
    /\ loc = [p \in Procs |-> NoLoc]
    /\ sub = [p \in Procs |-> NoSub]
    /\ done = [p \in Procs |-> NoDone]
    /\ calls = 0
    /\ faults = 0
    /\ expiries = 0

InitCommon ==
    /\ InitCallers
    /\ primary = EmptyNode
    /\ replica = [r \in ReplicaIdx |-> EmptyNode]
    /\ pending = [r \in ReplicaIdx |-> <<>>]
    /\ currentReadIndex = 0
    /\ written = EmptyNode
    /\ wseq = 0

Awaiting(p, fn, state) == sub[p].fn = fn /\ sub[p].state = state

\* the handler of p has reached label and the call it awaited has settled
Settled(p, label) == pc[p] = label /\ sub[p].state \in {"ok", "err"}

\* the handler of p awaits a store operation at label
AtStore(p, label) == pc[p] = label /\ sub[p].fn = "none"

\* the handler of p goes on to label with locals l, awaiting the coordinator call c
Goto(p, label, l, c) ==
    /\ pc' = [pc EXCEPT ![p] = label]
    /\ loc' = [loc EXCEPT ![p] = l]
    /\ sub' = [sub EXCEPT ![p] = c]
    /\ done' = done

\* the handler of p, its locals being l, returns val (status "ok") or throws ("err")
ReturnWith(p, l, status, val) ==
    /\ pc' = [pc EXCEPT ![p] = "idle"]
    /\ done' = [done EXCEPT ![p] = [call |-> l, status |-> status, val |-> val,
                                    at |-> wseq]]
    /\ loc' = [loc EXCEPT ![p] = NoLoc]
    /\ sub' = [sub EXCEPT ![p] = NoSub]

Return(p, status, val) == ReturnWith(p, loc[p], status, val)

\* history: the keys ks are deleted, or one of them expires
Forget(w, ks) == [k \in DOMAIN w \ ks |-> w[k]]

(***************************************************************************)
(* RedisShardingService.writeThrough(key, data, ttl)                       *)
(***************************************************************************)
CallWriteThrough(key, data, ttl) ==
    [NoSub EXCEPT !.fn = "writeThrough", !.state = "run", !.key = key,
                  !.keys = {key}, !.data = data, !.ttl = ttl]

\* Promise.all(replicationPromises) is not awaited; return true
AfterPrimaryWrite_awaited(s) == [s EXCEPT !.wrote = TRUE, !.state = "replicas", !.todo = ReplicaIdx]

AfterPrimaryWrite(s) == [s EXCEPT !.wrote = TRUE, !.state = "ok"]

\* await clusters.write.setEx(...) resolves; the replica writes are issued
WriteThroughPrimary(p) ==
    /\ Awaiting(p, "writeThrough", "run")
    /\ \A r \in ReplicaIdx : Len(pending[r]) < MaxPending
    /\ LET s == sub[p]
           text == JSONstringify(s.data)
           cmd == [key |-> s.key, ttl |-> s.ttl, text |-> text, wid |-> wseq + 1]
       IN  /\ primary' = NodeSetEx(primary, s.key, s.ttl, text, wseq + 1)
           /\ pending' = [r \in ReplicaIdx |-> Append(pending[r], cmd)]
           /\ written' = [k \in DOMAIN written \cup {s.key} |->
                             IF k = s.key THEN [v |-> s.data, wid |-> wseq + 1]
                             ELSE written[k]]
    /\ wseq' = wseq + 1
    /\ sub' = [sub EXCEPT ![p] = AfterPrimaryWrite(sub[p])]
    /\ loc' = [loc EXCEPT ![p].mutated = TRUE]
    /\ UNCHANGED <<store, replica, currentReadIndex, pc, done, calls, faults, expiries, adapter, socket, timer>>

\* the replica commands in flight once the primary write of cmd was rejected, were
\* the replication issued all the same
ReplicationAfterFailure_issued(pend, cmd) == [r \in ReplicaIdx |-> Append(pend[r], cmd)]

\* the replica commands in flight once the primary write of cmd was rejected: the
\* catch is entered from the await, the replication below it is not reached
ReplicationAfterFailure(pend, cmd) == pend

\* await clusters.write.setEx(...) rejects: catch, throw error
WriteThroughPrimaryFail(p) ==
    /\ Awaiting(p, "writeThrough", "run")
    /\ faults < MaxFaults
    /\ faults' = faults + 1
    /\ sub' = [sub EXCEPT ![p].state = "err"]
    /\ LET s == sub[p]
           cmd == [key |-> s.key, ttl |-> s.ttl, text |-> JSONstringify(s.data),
                   wid |-> wseq + 1]
       IN  pending' = ReplicationAfterFailure(pending, cmd)
    /\ UNCHANGED <<store, primary, replica, currentReadIndex, pc, loc,
                   done, written, wseq, calls, expiries, adapter, socket, timer>>

\* a detached client.setEx(...) reaches its replica
ReplicaApply(r) ==
    /\ pending[r] # <<>>
    /\ LET c == Head(pending[r])
       IN  replica' = [replica EXCEPT ![r] =
                          NodeSetEx(replica[r], c.key, c.ttl, c.text, c.wid)]
    /\ pending' = [pending EXCEPT ![r] = Tail(pending[r])]
    /\ UNCHANGED <<store, primary, currentReadIndex, pc, loc, sub, done,
                   written, wseq, calls, faults, expiries, adapter, socket, timer>>

\* a detached client.setEx(...) rejects: .catch logs "Read replica sync error"
ReplicaWriteFail(r) ==
    /\ pending[r] # <<>>
    /\ faults < MaxFaults
    /\ faults' = faults + 1
    /\ pending' = [pending EXCEPT ![r] = Tail(pending[r])]
    /\ UNCHANGED <<store, primary, replica, currentReadIndex, pc, loc, sub, done,
                   written, wseq, calls, expiries, adapter, socket, timer>>

(***************************************************************************)
(* RedisShardingService.readFromShard(key)                                 *)
(***************************************************************************)
\* the cursor skips a replica
NextReadIndex_skip == (currentReadIndex + 2) % NumReplicas

\* getReadClient(): index of the client returned, and the cursor afterwards
ReadClientIndex == currentReadIndex
NextReadIndex == (currentReadIndex + 1) % NumReplicas

\* getReadClient() moves the cursor on
GetReadClient == currentReadIndex' = NextReadIndex

\* the fallback client: readReplicas[(currentReadIndex + 1) % length]
FallbackIndex == (currentReadIndex + 1) % NumReplicas

\* client = getReadClient(); client.get(key) is sent (the caller takes GetReadClient)
CallReadFromShard(key) ==
    [NoSub EXCEPT !.fn = "readFromShard", !.state = "run", !.key = key, !.keys = {key},
                  !.served = ReadClientIndex]

\* the data read is dropped
ParseOrNull_miss(node, k) == NullVal

\* data ? JSON.parse(data) : null
ParseOrNull(node, k) == IF NodeHas(node, k) THEN JSONparse(NodeGet(node, k)) ELSE NullVal

\* history: what the last successful writeThrough of k wrote, and whether node holds that write
Expect(k) == IF k \in DOMAIN written THEN written[k].v ELSE NullVal
Synced(node, k) == k \in DOMAIN written /\ k \in DOMAIN node /\ node[k].wid = written[k].wid

\* await client.get(key) resolves
ReadFromShardGet(p) ==
    /\ Awaiting(p, "readFromShard", "run")
    /\ LET i == sub[p].served
           k == sub[p].key
       IN  /\ pending[i] = <<>>
           /\ sub' = [sub EXCEPT ![p].state = "ok",
                                 ![p].val = ParseOrNull(replica[i], k),
                                 ![p].expect = Expect(k),
                                 ![p].synced = Synced(replica[i], k)]
    /\ UNCHANGED <<store, primary, replica, pending, currentReadIndex, pc, loc, done,
                   written, wseq, calls, faults, expiries, adapter, socket, timer>>

\* await client.get(key) rejects: catch; fallbackClient.get(key) is sent
ReadFromShardGetFail(p) ==
    /\ Awaiting(p, "readFromShard", "run")
    /\ faults < MaxFaults
    /\ faults' = faults + 1
    /\ sub' = [sub EXCEPT ![p].state = "fallback", ![p].todo = {sub[p].served},
                          ![p].served = FallbackIndex]
    /\ UNCHANGED <<store, primary, replica, pending, currentReadIndex, pc, loc, done,
                   written, wseq, calls, expiries, adapter, socket, timer>>

\* await fallbackClient.get(key) resolves
ReadFromShardFallback(p) ==
    /\ Awaiting(p, "readFromShard", "fallback")
    /\ LET j == sub[p].served
           k == sub[p].key
       IN  /\ pending[j] = <<>>
           /\ sub' = [sub EXCEPT ![p].state = "ok",
                                 ![p].val = ParseOrNull(replica[j], k),
                                 ![p].expect = Expect(k),
                                 ![p].synced = Synced(replica[j], k)]
    /\ UNCHANGED <<store, primary, replica, pending, currentReadIndex, pc, loc, done,
                   written, wseq, calls, faults, expiries, adapter, socket, timer>>

\* await fallbackClient.get(key) rejects: return null
ReadFromShardFallbackFail(p) ==
    /\ Awaiting(p, "readFromShard", "fallback")
    /\ faults < MaxFaults
    /\ faults' = faults + 1
    /\ sub' = [sub EXCEPT ![p].state = "ok", ![p].val = NullVal,
                          ![p].todo = @ \cup {sub[p].served},
                          ![p].expect = Expect(sub[p].key)]
    /\ UNCHANGED <<store, primary, replica, pending, currentReadIndex, pc, loc, done,
                   written, wseq, calls, expiries, adapter, socket, timer>>

(***************************************************************************)
(* RedisShardingService.delete(keys)                                       *)
(***************************************************************************)
CallDelete(keys) == [NoSub EXCEPT !.fn = "delete", !.state = "run", !.keys = keys]

\* await clusters.write.del(...keysArray) resolves; the replica deletions are issued
DeletePrimary(p) ==
    /\ Awaiting(p, "delete", "run")
    /\ primary' = NodeDel(primary, sub[p].keys)
    /\ sub' = [sub EXCEPT ![p].state = "replicas", ![p].todo = ReplicaIdx, ![p].wrote = TRUE]
    /\ written' = Forget(written, sub[p].keys)
    /\ loc' = [loc EXCEPT ![p].mutated = TRUE]
    /\ UNCHANGED <<store, replica, pending, currentReadIndex, pc, done,
                   wseq, calls, faults, expiries, adapter, socket, timer>>

\* await clusters.write.del(...keysArray) rejects: catch, throw error
DeletePrimaryFail(p) ==
    /\ Awaiting(p, "delete", "run")
    /\ faults < MaxFaults
    /\ faults' = faults + 1
    /\ sub' = [sub EXCEPT ![p].state = "err"]
    /\ UNCHANGED <<store, primary, replica, pending, currentReadIndex, pc, loc, done,
                   written, wseq, calls, expiries, adapter, socket, timer>>

\* await Promise.all(deletionPromises) resolves once every replica answered
AfterReplicaDeletion(s, r) ==
    [s EXCEPT !.todo = s.todo \ {r},
              !.state = IF s.todo \ {r} = {} THEN "ok" ELSE "replicas"]

\* client.del(...keysArray) resolves on replica r
DeleteReplica(p, r) ==
    /\ Awaiting(p, "delete", "replicas")
    /\ r \in sub[p].todo
    /\ pending[r] = <<>>
    /\ replica' = [replica EXCEPT ![r] = NodeDel(replica[r], sub[p].keys)]
    /\ sub' = [sub EXCEPT ![p] = AfterReplicaDeletion(sub[p], r)]
    /\ loc' = [loc EXCEPT ![p].mutated = TRUE]
    /\ UNCHANGED <<store, primary, pending, currentReadIndex, pc, done,
                   written, wseq, calls, faults, expiries, adapter, socket, timer>>

\* client.del(...keysArray) rejects on replica r: .catch logs "Read replica deletion error"
DeleteReplicaFail(p, r) ==
    /\ Awaiting(p, "delete", "replicas")
    /\ r \in sub[p].todo
    /\ pending[r] = <<>>
    /\ faults < MaxFaults
    /\ faults' = faults + 1
    /\ sub' = [sub EXCEPT ![p] = AfterReplicaDeletion(sub[p], r)]
    /\ UNCHANGED <<store, primary, replica, pending, currentReadIndex, pc, loc, done,
                   written, wseq, calls, expiries, adapter, socket, timer>>

(***************************************************************************)
(* TTL expiry of one key on one node.                                      *)
(***************************************************************************)
ExpirePrimary(k) ==
    /\ NodeHas(primary, k)
    /\ expiries < MaxExpiries
    /\ expiries' = expiries + 1
    /\ primary' = NodeDel(primary, {k})
    /\ written' = Forget(written, {k})
    /\ UNCHANGED <<store, replica, pending, currentReadIndex, pc, loc, sub, done,
                   wseq, calls, faults, adapter, socket, timer>>

ExpireReplica(r, k) ==
    /\ NodeHas(replica[r], k)
    /\ expiries < MaxExpiries
    /\ expiries' = expiries + 1
    /\ replica' = [replica EXCEPT ![r] = NodeDel(replica[r], {k})]
    /\ written' = Forget(written, {k})
    /\ UNCHANGED <<store, primary, pending, currentReadIndex, pc, loc, sub, done,
                   wseq, calls, faults, adapter, socket, timer>>

(***************************************************************************)
(* Direct callers of the coordinator (runBenchmark, the repository).       *)
(***************************************************************************)
KVKeys == {MessageKey(1)}
KVValues == {Num(1), MsgVal(ToObject(<<NewDoc(1, 1)>>, 1))}

\* a caller invokes a handler: its first await is at label
Begin(p, label, l, c) ==
    /\ pc[p] = "idle"
    /\ calls' = calls + 1
    /\ Goto(p, label, l, c)

StartWriteThrough(p, k, v) ==
    /\ Begin(p, "direct", [NoLoc EXCEPT !.op = "writeThrough"],
             CallWriteThrough(k, v, DefaultTTL))
    /\ UNCHANGED <<store, primary, replica, pending, currentReadIndex,
                   written, wseq, faults, expiries, adapter, socket, timer>>

StartReadFromShard(p, k) ==
    /\ Begin(p, "direct", [NoLoc EXCEPT !.op = "readFromShard"], CallReadFromShard(k))
    /\ GetReadClient
    /\ UNCHANGED <<store, nodeVars, faults, expiries, adapter, socket, timer>>

StartDelete(p, ks) ==
    /\ Begin(p, "direct", [NoLoc EXCEPT !.op = "delete"], CallDelete(ks))
    /\ UNCHANGED <<store, primary, replica, pending, currentReadIndex,
                   written, wseq, faults, expiries, adapter, socket, timer>>

\* the awaited coordinator call settles: its caller has the result
ReturnDirect(p) ==
    /\ Settled(p, "direct")
    /\ Return(p, sub[p].state, sub[p].val)
    /\ UNCHANGED <<store, primary, replica, pending, currentReadIndex,
                   written, wseq, calls, faults, expiries, adapter, socket, timer>>

InitKV == InitCommon /\ store = <<>>

\* the callers have calls left to begin
CallsLeft == calls < MaxCalls

StartDirect(p) ==
    \/ \E k \in KVKeys, v \in KVValues : StartWriteThrough(p, k, v)
    \/ \E k \in KVKeys : StartReadFromShard(p, k)
    \/ \E k \in KVKeys : StartDelete(p, {k})

NextKV ==
    \/ \E p \in SeqProcs : CallsLeft /\ StartDirect(p)
    \/ \E p \in Procs : ReturnDirect(p)
    \/ \E p \in Procs : WriteThroughPrimary(p)
    \/ \E p \in Procs : WriteThroughPrimaryFail(p)
    \/ \E r \in ReplicaIdx : ReplicaApply(r)
    \/ \E r \in ReplicaIdx : ReplicaWriteFail(r)
    \/ \E p \in Procs : ReadFromShardGet(p)
    \/ \E p \in Procs : ReadFromShardGetFail(p)
    \/ \E p \in Procs : ReadFromShardFallback(p)
    \/ \E p \in Procs : ReadFromShardFallbackFail(p)
    \/ \E p \in Procs : DeletePrimary(p)
    \/ \E p \in Procs : DeletePrimaryFail(p)
    \/ \E p \in Procs, r \in ReplicaIdx : DeleteReplica(p, r)
    \/ \E p \in Procs, r \in ReplicaIdx : DeleteReplicaFail(p, r)
    \/ \E k \in KVKeys : ExpirePrimary(k)
    \/ \E r \in ReplicaIdx, k \in KVKeys : ExpireReplica(r, k)

\* The coordinator on its own: direct calls one after the other, failures, expiry.
SpecKV == InitKV /\ [][NextKV]_vars

(***************************************************************************)
(* The failure of an awaited store operation.                              *)
(***************************************************************************)
StoreFault == faults < MaxFaults /\ faults' = faults + 1

(***************************************************************************)
(* MessageRepository.saveMessage(messageData), with addToRecentMessages,   *)
(* incrementMessageCount and invalidateMessageBatch, which only it calls.  *)
(***************************************************************************)
\* page 0 invalidated before anything is stored
SaveMessageEntry_invalidateFirst(roomId) ==
    [label |-> "save_store", call |-> CallDelete({BatchKey(roomId, 0)})]

\* the first await of saveMessage: message.save()
SaveMessageEntry(roomId) == [label |-> "save_store", call |-> NoSub]

StartSaveMessage(p, roomId) ==
    /\ Begin(p, SaveMessageEntry(roomId).label,
             [NoLoc EXCEPT !.op = "saveMessage", !.room = roomId],
             SaveMessageEntry(roomId).call)
    /\ UNCHANGED <<store, cacheVars, faults, expiries, adapter, socket, timer>>

\* await message.save() resolves
SaveStore(p) ==
    /\ AtStore(p, "save_store")
    /\ LET id == Len(store) + 1
           st == Append(store, NewDoc(loc[p].room, id))
       IN  /\ store' = st
           /\ Goto(p, "save_populate",
                   [loc[p] EXCEPT !.id = id, !.doc = MsgVal(ToObject(st, id))], NoSub)
    /\ UNCHANGED <<cacheVars, calls, faults, expiries, adapter, socket, timer>>

\* await message.save() rejects: catch, throw error
SaveStoreFail(p) ==
    /\ AtStore(p, "save_store")
    /\ StoreFault
    /\ Return(p, "err", NullVal)
    /\ UNCHANGED <<store, cacheVars, calls, expiries, adapter, socket, timer>>

\* await message.populate(...) resolves; writeThrough(`message:${_id}`, message.toObject())
SavePopulate(p) ==
    /\ AtStore(p, "save_populate")
    /\ Goto(p, "save_cache", [loc[p] EXCEPT !.stored = TRUE],
            CallWriteThrough(MessageKey(loc[p].id), loc[p].doc, TTL_MESSAGES))
    /\ UNCHANGED <<store, cacheVars, calls, faults, expiries, adapter, socket, timer>>

\* await message.populate(...) rejects: catch, throw error
SavePopulateFail(p) ==
    /\ AtStore(p, "save_populate")
    /\ StoreFault
    /\ Return(p, "err", NullVal)
    /\ UNCHANGED <<store, cacheVars, calls, expiries, adapter, socket, timer>>

\* the writeThrough of the message threw: catch, throw error
SaveCacheFailed(p) ==
    /\ Settled(p, "save_cache")
    /\ sub[p].state = "err"
    /\ Return(p, "err", NullVal)
    /\ UNCHANGED <<store, cacheVars, calls, faults, expiries, adapter, socket, timer>>

\* the message is cached; addToRecentMessages: readFromShard(`recent:${roomId}`)
SaveCached(p) ==
    /\ Settled(p, "save_cache")
    /\ sub[p].state = "ok"
    /\ Goto(p, "recent_read", loc[p], CallReadFromShard(RecentKey(loc[p].room)))
    /\ GetReadClient
    /\ UNCHANGED <<store, nodeVars, calls, faults, expiries, adapter, socket, timer>>

\* the ring keeps its first maxMessages entries
TrimRecent_oldest(list, maxMessages) ==
    IF Len(list) > maxMessages THEN SliceFirst(list, maxMessages) ELSE list

\* if (recentMessages.length > maxMessages) recentMessages = recentMessages.slice(-maxMessages)
TrimRecent(list, maxMessages) ==
    IF Len(list) > maxMessages THEN SliceLast(list, maxMessages) ELSE list

\* recentMessages = cached || []; push(message); trim; writeThrough the list
AddToRecentPush(p) ==
    /\ Settled(p, "recent_read")
    /\ sub[p].val.t \in {"null", "msgs"}
    /\ LET recentMessages == IF sub[p].val.t = "null" THEN <<>> ELSE sub[p].val.list
           pushed == Append(recentMessages, loc[p].doc.m)
       IN  Goto(p, "recent_write", loc[p],
                CallWriteThrough(RecentKey(loc[p].room),
                                 ListVal(TrimRecent(pushed, MaxRecent)),
                                 TTL_RECENT_MESSAGES))
    /\ UNCHANGED <<store, cacheVars, calls, faults, expiries, adapter, socket, timer>>

\* addToRecentMessages is over (an error of its writeThrough is caught and logged);
\* incrementMessageCount: readFromShard(`msg_count:${roomId}`)
AddToRecentDone(p) ==
    /\ \/ Settled(p, "recent_write")
       \/ Settled(p, "recent_read") /\ sub[p].val.t \notin {"null", "msgs"}
    /\ Goto(p, "count_read", loc[p], CallReadFromShard(CountKey(loc[p].room)))
    /\ GetReadClient
    /\ UNCHANGED <<store, nodeVars, calls, faults, expiries, adapter, socket, timer>>

\* a count is cached: writeThrough(parseInt(currentCount) + 1)
IncrementCached(p) ==
    /\ Settled(p, "count_read")
    /\ sub[p].val.t = "num"
    /\ Goto(p, "count_write", loc[p],
            CallWriteThrough(CountKey(loc[p].room), Num(sub[p].val.n + 1),
                             TTL_MESSAGE_COUNT))
    /\ UNCHANGED <<store, cacheVars, calls, faults, expiries, adapter, socket, timer>>

\* no count is cached: await Message.countDocuments({room})
IncrementMissed(p) ==
    /\ Settled(p, "count_read")
    /\ sub[p].val.t = "null"
    /\ Goto(p, "count_store", loc[p], NoSub)
    /\ UNCHANGED <<store, cacheVars, calls, faults, expiries, adapter, socket, timer>>

\* countDocuments resolves: writeThrough(actualCount)
IncrementRecount(p) ==
    /\ AtStore(p, "count_store")
    /\ Goto(p, "count_write", [loc[p] EXCEPT !.queries = @ + 1],
            CallWriteThrough(CountKey(loc[p].room),
                             Num(CountDocuments(store, loc[p].room)),
                             TTL_MESSAGE_COUNT))
    /\ UNCHANGED <<store, cacheVars, calls, faults, expiries, adapter, socket, timer>>

\* invalidateMessageBatch(roomId, 0): delete(`messages:${roomId}:0`)
InvalidateFirstPage(roomId) == CallDelete({BatchKey(roomId, 0)})

\* countDocuments rejects: caught and logged; invalidateMessageBatch(roomId, 0)
IncrementRecountFail(p) ==
    /\ AtStore(p, "count_store")
    /\ StoreFault
    /\ Goto(p, "inval", loc[p], InvalidateFirstPage(loc[p].room))
    /\ UNCHANGED <<store, cacheVars, calls, expiries, adapter, socket, timer>>

\* incrementMessageCount is over (an error of its writeThrough is caught and logged);
\* invalidateMessageBatch(roomId, 0)
IncrementDone(p) ==
    /\ Settled(p, "count_write")
    /\ Goto(p, "inval", loc[p], InvalidateFirstPage(loc[p].room))
    /\ UNCHANGED <<store, cacheVars, calls, faults, expiries, adapter, socket, timer>>

\* invalidateMessageBatch is over (an error of delete is caught and logged); return message
SaveReturn(p) ==
    /\ Settled(p, "inval")
    /\ Return(p, "ok", loc[p].doc)
    /\ UNCHANGED <<store, cacheVars, calls, faults, expiries, adapter, socket, timer>>

(***************************************************************************)
(* MessageRepository.markMessagesAsRead(messageIds, userId), for one-id     *)
(* lists messageIds = [id].  A read receipt is the user id; readAt is not   *)
(* represented.                                                             *)
(***************************************************************************)
\* the documents an updateMany without the 'readers.userId' filter matches
Matched_unfiltered(st, ids, userId) == {i \in ids : i \in 1..Len(st)}

\* the documents matching {_id: {$in: messageIds}, 'readers.userId': {$ne: userId}}
Matched(st, ids, userId) ==
    {i \in ids : i \in 1..Len(st) /\ \A j \in 1..Len(st[i].readers) : st[i].readers[j] # userId}

\* Message.updateMany(filter, {$push: {readers: {userId, readAt}}})
UpdateMany(st, ids, userId) ==
    [i \in 1..Len(st) |->
        IF i \in Matched(st, ids, userId)
        THEN [st[i] EXCEPT !.readers = Append(@, userId)]
        ELSE st[i]]

\* result.modifiedCount
ModifiedCount(st, ids, userId) == Cardinality(Matched(st, ids, userId))

StartMarkMessagesAsRead(p, id, userId) ==
    /\ Begin(p, "read_update",
             [NoLoc EXCEPT !.op = "markMessagesAsRead", !.id = id, !.user = userId], NoSub)
    /\ UNCHANGED <<store, cacheVars, faults, expiries, adapter, socket, timer>>

\* await Message.updateMany(...) resolves; Promise.all of delete(`message:${id}`)
MarkUpdate(p) ==
    /\ AtStore(p, "read_update")
    /\ LET ids == {loc[p].id}
           u == loc[p].user
       IN  /\ store' = UpdateMany(store, ids, u)
           /\ Goto(p, "read_del",
                   [loc[p] EXCEPT !.count = ModifiedCount(store, ids, u),
                                  !.hit = \A i \in ids : i \in 1..Len(store) =>
                                             \E j \in 1..Len(store[i].readers) :
                                                 store[i].readers[j] = u,
                                  !.stored = TRUE],
                   CallDelete({MessageKey(loc[p].id)}))
    /\ UNCHANGED <<cacheVars, calls, faults, expiries, adapter, socket, timer>>

\* await Message.updateMany(...) rejects: catch, throw error
MarkUpdateFail(p) ==
    /\ AtStore(p, "read_update")
    /\ StoreFault
    /\ Return(p, "err", NullVal)
    /\ UNCHANGED <<store, cacheVars, calls, expiries, adapter, socket, timer>>

\* the delete threw: catch, throw error
MarkDeleteFailed(p) ==
    /\ Settled(p, "read_del")
    /\ sub[p].state = "err"
    /\ Return(p, "err", NullVal)
    /\ UNCHANGED <<store, cacheVars, calls, faults, expiries, adapter, socket, timer>>

\* return result
MarkReturn(p) ==
    /\ Settled(p, "read_del")
    /\ sub[p].state = "ok"
    /\ Return(p, "ok", Num(loc[p].count))
    /\ UNCHANGED <<store, cacheVars, calls, faults, expiries, adapter, socket, timer>>

(***************************************************************************)
(* MessageRepository.updateMessageReaction(messageId, reaction, userId,     *)
(* type) with invalidateMessageBatchesForRoom.                              *)
(***************************************************************************)
Reactions == {"like"}
ReactionTypes == {"add", "remove"}

\* message.addReaction / message.removeReaction: a reaction is held once per user
ToggleReaction(reactions, reaction, userId, type) ==
    IF type = "add" THEN reactions \cup {<<reaction, userId>>}
    ELSE IF type = "remove" THEN reactions \ {<<reaction, userId>>}
    ELSE reactions

StartUpdateMessageReaction(p, id, reaction, userId, type) ==
    /\ Begin(p, "react_find",
             [NoLoc EXCEPT !.op = "updateMessageReaction", !.id = id, !.user = userId,
                           !.reaction = reaction, !.kind = type], NoSub)
    /\ UNCHANGED <<store, cacheVars, faults, expiries, adapter, socket, timer>>

\* new Error('...') thrown when findById finds no message (the text is not modelled)
NotFoundError == [t |-> "error", name |-> "NotFound"]

\* await Message.findById(messageId) resolves with a document
ReactFind(p) ==
    /\ AtStore(p, "react_find")
    /\ loc[p].id \in 1..Len(store)
    /\ Goto(p, "react_apply",
            [loc[p] EXCEPT !.room = store[loc[p].id].room, !.queries = @ + 1,
                           !.doc = MsgVal(ToObject(store, loc[p].id))], NoSub)
    /\ UNCHANGED <<store, cacheVars, calls, faults, expiries, adapter, socket, timer>>

\* findById resolves with null and nothing is thrown: return message
ReactFindNone_silent(p) ==
    /\ AtStore(p, "react_find")
    /\ \/ /\ loc[p].id \notin 1..Len(store)
          /\ ReturnWith(p, [loc[p] EXCEPT !.queries = @ + 1], "ok", NullVal)
          /\ UNCHANGED faults
       \/ StoreFault /\ Return(p, "err", NullVal)
    /\ UNCHANGED <<store, cacheVars, calls, expiries, adapter, socket, timer>>

\* findById resolves with null: throw new Error(...); or it rejects; both reach the
\* catch, which throws the error again
ReactFindNone(p) ==
    /\ AtStore(p, "react_find")
    /\ \/ /\ loc[p].id \notin 1..Len(store)
          /\ ReturnWith(p, [loc[p] EXCEPT !.queries = @ + 1], "err", NotFoundError)
          /\ UNCHANGED faults
       \/ StoreFault /\ Return(p, "err", NullVal)
    /\ UNCHANGED <<store, cacheVars, calls, expiries, adapter, socket, timer>>

\* await message.addReaction / removeReaction resolves: the document in memory and
\* its stored reactions change; writeThrough(`message:${messageId}`, message.toObject())
ReactApply(p) ==
    /\ AtStore(p, "react_apply")
    /\ LET l == loc[p]
           rs == ToggleReaction(l.doc.m.reactions, l.reaction, l.user, l.kind)
           d == [l.doc EXCEPT !.m.reactions = rs]
       IN  /\ store' = [store EXCEPT ![l.id].reactions = rs]
           /\ Goto(p, "react_cache", [l EXCEPT !.doc = d, !.stored = TRUE],
                   CallWriteThrough(MessageKey(l.id), d, TTL_MESSAGES))
    /\ UNCHANGED <<cacheVars, calls, faults, expiries, adapter, socket, timer>>

\* addReaction / removeReaction rejects: catch, throw error
ReactApplyFail(p) ==
    /\ AtStore(p, "react_apply")
    /\ StoreFault
    /\ Return(p, "err", NullVal)
    /\ UNCHANGED <<store, cacheVars, calls, expiries, adapter, socket, timer>>

\* the writeThrough threw: catch, throw error
ReactCacheFailed(p) ==
    /\ Settled(p, "react_cache")
    /\ sub[p].state = "err"
    /\ Return(p, "err", NullVal)
    /\ UNCHANGED <<store, cacheVars, calls, faults, expiries, adapter, socket, timer>>

\* keys = messages:{roomId}:0 .. messages:{roomId}:{maxPages - 1}
RoomBatchKeys(roomId, maxPages) == {BatchKey(roomId, page) : page \in 0..(maxPages - 1)}

\* invalidateMessageBatchesForRoom(message.room): delete(keys)
ReactCached(p) ==
    /\ Settled(p, "react_cache")
    /\ sub[p].state = "ok"
    /\ Goto(p, "react_inval", loc[p], CallDelete(RoomBatchKeys(loc[p].room, MaxPages)))
    /\ UNCHANGED <<store, cacheVars, calls, faults, expiries, adapter, socket, timer>>

\* invalidateMessageBatchesForRoom is over (an error of delete is caught and logged)
ReactReturn(p) ==
    /\ Settled(p, "react_inval")
    /\ Return(p, "ok", loc[p].doc)
    /\ UNCHANGED <<store, cacheVars, calls, faults, expiries, adapter, socket, timer>>

(***************************************************************************)
(* MessageRepository.getMessageCount(roomId)                               *)
(***************************************************************************)
StartGetMessageCount(p, roomId) ==
    /\ Begin(p, "gc_read", [NoLoc EXCEPT !.op = "getMessageCount", !.room = roomId],
             CallReadFromShard(CountKey(roomId)))
    /\ GetReadClient
    /\ UNCHANGED <<store, nodeVars, faults, expiries, adapter, socket, timer>>

\* count !== null: return parseInt(count)
CountHit(p) ==
    /\ Settled(p, "gc_read")
    /\ sub[p].val.t = "num"
    /\ ReturnWith(p, [loc[p] EXCEPT !.hit = TRUE, !.cached = sub[p].val],
                  "ok", Num(sub[p].val.n))
    /\ UNCHANGED <<store, cacheVars, calls, faults, expiries, adapter, socket, timer>>

\* count === null: await Message.countDocuments({room})
CountMiss(p) ==
    /\ Settled(p, "gc_read")
    /\ sub[p].val.t = "null"
    /\ Goto(p, "gc_store", loc[p], NoSub)
    /\ UNCHANGED <<store, cacheVars, calls, faults, expiries, adapter, socket, timer>>

\* countDocuments resolves: writeThrough(cacheKey, count)
CountLoad(p) ==
    /\ AtStore(p, "gc_store")
    /\ LET n == CountDocuments(store, loc[p].room)
       IN  Goto(p, "gc_cache", [loc[p] EXCEPT !.queries = @ + 1, !.count = n],
                CallWriteThrough(CountKey(loc[p].room), Num(n), TTL_MESSAGE_COUNT))
    /\ UNCHANGED <<store, cacheVars, calls, faults, expiries, adapter, socket, timer>>

\* countDocuments rejects: catch, return 0
CountLoadFail(p) ==
    /\ AtStore(p, "gc_store")
    /\ StoreFault
    /\ ReturnWith(p, [loc[p] EXCEPT !.queries = @ + 1], "ok", Num(0))
    /\ UNCHANGED <<store, cacheVars, calls, expiries, adapter, socket, timer>>

\* the writeThrough threw: catch, return 0
CountCacheFailed(p) ==
    /\ Settled(p, "gc_cache")
    /\ sub[p].state = "err"
    /\ Return(p, "ok", Num(0))
    /\ UNCHANGED <<store, cacheVars, calls, faults, expiries, adapter, socket, timer>>

\* return count
CountReturn(p) ==
    /\ Settled(p, "gc_cache")
    /\ sub[p].state = "ok"
    /\ Return(p, "ok", Num(loc[p].count))
    /\ UNCHANGED <<store, cacheVars, calls, faults, expiries, adapter, socket, timer>>

(***************************************************************************)
(* MessageRepository.getMessagesBatch(roomId, page, limit, before) with    *)
(* isValidCacheForBefore; before = 0 stands for before = null.             *)
(***************************************************************************)
\* Date.now(): a logical clock, the number of calls begun
Now == calls

\* oldestDate < beforeDate
IsValidCacheForBefore_strict(cached, before) ==
    \/ before = 0
    \/ cached.oldestTimestamp = NoTime
    \/ TimeOf(cached.oldestTimestamp) < before

\* !before || !cached.oldestTimestamp || new Date(oldestTimestamp) <= new Date(before)
IsValidCacheForBefore(cached, before) ==
    \/ before = 0
    \/ cached.oldestTimestamp = NoTime
    \/ TimeOf(cached.oldestTimestamp) <= before

\* cached && (!before || this.isValidCacheForBefore(cached, before))
BatchUsable(cached, before) ==
    /\ cached.t = "batch"
    /\ before = 0 \/ IsValidCacheForBefore(cached, before)

StartGetMessagesBatch(p, roomId, page, limit, before) ==
    /\ Begin(p, "gb_read",
             [NoLoc EXCEPT !.op = "getMessagesBatch", !.room = roomId, !.page = page,
                           !.limit = limit, !.before = before],
             CallReadFromShard(BatchKey(roomId, page)))
    /\ GetReadClient
    /\ UNCHANGED <<store, nodeVars, faults, expiries, adapter, socket, timer>>

\* cache hit: return cached
BatchHit(p) ==
    /\ Settled(p, "gb_read")
    /\ BatchUsable(sub[p].val, loc[p].before)
    /\ ReturnWith(p, [loc[p] EXCEPT !.hit = TRUE, !.cached = sub[p].val],
                  "ok", sub[p].val)
    /\ UNCHANGED <<store, cacheVars, calls, faults, expiries, adapter, socket, timer>>

\* cache miss: await Message.find(query)...
BatchMiss(p) ==
    /\ Settled(p, "gb_read")
    /\ ~BatchUsable(sub[p].val, loc[p].before)
    /\ Goto(p, "gb_store", [loc[p] EXCEPT !.cached = sub[p].val], NoSub)
    /\ UNCHANGED <<store, cacheVars, calls, faults, expiries, adapter, socket, timer>>

\* hasMore is set when the find result is as long as the limit
BatchResult_atLimit(messages, limit, at) ==
    LET sortedMessages == Reverse(SliceFirst(messages, limit))
    IN  BatchVal(sortedMessages, Len(messages) >= limit,
                 IF sortedMessages = <<>> THEN NoTime ELSE sortedMessages[1].timestamp,
                 at)

\* {messages: sortedMessages, hasMore, oldestTimestamp, cachedAt} of the find result
BatchResult(messages, limit, at) ==
    LET sortedMessages == Reverse(SliceFirst(messages, limit))
    IN  BatchVal(sortedMessages, Len(messages) > limit,
                 IF sortedMessages = <<>> THEN NoTime ELSE sortedMessages[1].timestamp,
                 at)

\* the find resolves: writeThrough(cacheKey, result)
BatchLoad(p) ==
    /\ AtStore(p, "gb_store")
    /\ LET l == loc[p]
           result == BatchResult(FindDesc(store, l.room, l.before, l.limit + 1),
                                 l.limit, Now)
       IN  Goto(p, "gb_cache", [l EXCEPT !.queries = @ + 1, !.doc = result],
                CallWriteThrough(BatchKey(l.room, l.page), result, TTL_MESSAGE_BATCH))
    /\ UNCHANGED <<store, cacheVars, calls, faults, expiries, adapter, socket, timer>>

\* the find rejects: catch, throw error
BatchLoadFail(p) ==
    /\ AtStore(p, "gb_store")
    /\ StoreFault
    /\ Return(p, "err", NullVal)
    /\ UNCHANGED <<store, cacheVars, calls, expiries, adapter, socket, timer>>

\* the writeThrough threw: catch, throw error
BatchCacheFailed(p) ==
    /\ Settled(p, "gb_cache")
    /\ sub[p].state = "err"
    /\ Return(p, "err", NullVal)
    /\ UNCHANGED <<store, cacheVars, calls, faults, expiries, adapter, socket, timer>>

\* return result
BatchReturn(p) ==
    /\ Settled(p, "gb_cache")
    /\ sub[p].state = "ok"
    /\ Return(p, "ok", loc[p].doc)
    /\ UNCHANGED <<store, cacheVars, calls, faults, expiries, adapter, socket, timer>>

(***************************************************************************)
(* MessageRepository.getRecentMessages(roomId, limit)                      *)
(***************************************************************************)
StartGetRecentMessages(p, roomId, limit) ==
    /\ Begin(p, "gr_read",
             [NoLoc EXCEPT !.op = "getRecentMessages", !.room = roomId, !.limit = limit],
             CallReadFromShard(RecentKey(roomId)))
    /\ GetReadClient
    /\ UNCHANGED <<store, nodeVars, faults, expiries, adapter, socket, timer>>

\* recent && Array.isArray(recent) && recent.length > 0
RecentUsable(recent) == recent.t = "msgs" /\ Len(recent.list) > 0

\* recent.slice(0, limit): the oldest entries of the ring instead of the newest
RecentSlice_head(recent, limit) == ListVal(SliceFirst(recent.list, limit))

\* recent.slice(-limit)
RecentSlice(recent, limit) == ListVal(SliceLast(recent.list, limit))

\* cache hit: return recent.slice(-limit)
RecentHit(p) ==
    /\ Settled(p, "gr_read")
    /\ RecentUsable(sub[p].val)
    /\ ReturnWith(p, [loc[p] EXCEPT !.hit = TRUE, !.cached = sub[p].val],
                  "ok", RecentSlice(sub[p].val, loc[p].limit))
    /\ UNCHANGED <<store, cacheVars, calls, faults, expiries, adapter, socket, timer>>

\* cache miss: await Message.find({room})...limit(limit)
RecentMiss(p) ==
    /\ Settled(p, "gr_read")
    /\ ~RecentUsable(sub[p].val)
    /\ Goto(p, "gr_store", loc[p], NoSub)
    /\ UNCHANGED <<store, cacheVars, calls, faults, expiries, adapter, socket, timer>>

\* the find resolves: sortedMessages = messages.reverse(); writeThrough(cacheKey, sortedMessages)
RecentLoad(p) ==
    /\ AtStore(p, "gr_store")
    /\ LET l == loc[p]
           sortedMessages == ListVal(Reverse(FindDesc(store, l.room, 0, l.limit)))
       IN  Goto(p, "gr_cache", [l EXCEPT !.queries = @ + 1, !.doc = sortedMessages],
                CallWriteThrough(RecentKey(l.room), sortedMessages, TTL_RECENT_MESSAGES))
    /\ UNCHANGED <<store, cacheVars, calls, faults, expiries, adapter, socket, timer>>

\* the find rejects: catch, throw error
RecentLoadFail(p) ==
    /\ AtStore(p, "gr_store")
    /\ StoreFault
    /\ Return(p, "err", NullVal)
    /\ UNCHANGED <<store, cacheVars, calls, expiries, adapter, socket, timer>>

\* the writeThrough threw: catch, throw error
RecentCacheFailed(p) ==
    /\ Settled(p, "gr_cache")
    /\ sub[p].state = "err"
    /\ Return(p, "err", NullVal)
    /\ UNCHANGED <<store, cacheVars, calls, faults, expiries, adapter, socket, timer>>

\* return sortedMessages
RecentReturn(p) ==
    /\ Settled(p, "gr_cache")
    /\ sub[p].state = "ok"
    /\ Return(p, "ok", loc[p].doc)
    /\ UNCHANGED <<store, cacheVars, calls, faults, expiries, adapter, socket, timer>>

(***************************************************************************)
(* MessageRepository.getMessageById(messageId)                             *)
(***************************************************************************)
StartGetMessageById(p, id) ==
    /\ Begin(p, "gm_read", [NoLoc EXCEPT !.op = "getMessageById", !.id = id],
             CallReadFromShard(MessageKey(id)))
    /\ GetReadClient
    /\ UNCHANGED <<store, nodeVars, faults, expiries, adapter, socket, timer>>

\* cache hit: return message
MessageHit(p) ==
    /\ Settled(p, "gm_read")
    /\ sub[p].val.t # "null"
    /\ ReturnWith(p, [loc[p] EXCEPT !.hit = TRUE, !.cached = sub[p].val], "ok", sub[p].val)
    /\ UNCHANGED <<store, cacheVars, calls, faults, expiries, adapter, socket, timer>>

\* cache miss: await Message.findById(messageId)...lean()
MessageMiss(p) ==
    /\ Settled(p, "gm_read")
    /\ sub[p].val.t = "null"
    /\ Goto(p, "gm_store", loc[p], NoSub)
    /\ UNCHANGED <<store, cacheVars, calls, faults, expiries, adapter, socket, timer>>

\* findById resolves with a document: writeThrough(cacheKey, message)
MessageLoad(p) ==
    /\ AtStore(p, "gm_store")
    /\ loc[p].id \in 1..Len(store)
    /\ LET message == MsgVal(ToObject(store, loc[p].id))
       IN  Goto(p, "gm_cache", [loc[p] EXCEPT !.queries = @ + 1, !.doc = message],
                CallWriteThrough(MessageKey(loc[p].id), message, TTL_MESSAGES))
    /\ UNCHANGED <<store, cacheVars, calls, faults, expiries, adapter, socket, timer>>

\* findById resolves with null: return null
MessageLoadNone(p) ==
    /\ AtStore(p, "gm_store")
    /\ loc[p].id \notin 1..Len(store)
    /\ ReturnWith(p, [loc[p] EXCEPT !.queries = @ + 1], "ok", NullVal)
    /\ UNCHANGED <<store, cacheVars, calls, faults, expiries, adapter, socket, timer>>

\* findById rejects: catch, throw error
MessageLoadFail(p) ==
    /\ AtStore(p, "gm_store")
    /\ StoreFault
    /\ Return(p, "err", NullVal)
    /\ UNCHANGED <<store, cacheVars, calls, expiries, adapter, socket, timer>>

\* the writeThrough threw: catch, throw error
MessageCacheFailed(p) ==
    /\ Settled(p, "gm_cache")
    /\ sub[p].state = "err"
    /\ Return(p, "err", NullVal)
    /\ UNCHANGED <<store, cacheVars, calls, faults, expiries, adapter, socket, timer>>

\* return message
MessageReturn(p) ==
    /\ Settled(p, "gm_cache")
    /\ sub[p].state = "ok"
    /\ Return(p, "ok", loc[p].doc)
    /\ UNCHANGED <<store, cacheVars, calls, faults, expiries, adapter, socket, timer>>

(***************************************************************************)
(* RedisShardingService.mget(keys)                                         *)
(***************************************************************************)
CallMget(keys) ==
    [NoSub EXCEPT !.fn = "mget", !.state = "run", !.keys = keys, !.served = ReadClientIndex]

\* values.map: {key, value: value ? JSON.parse(value) : null}
MgetValues(node, keys) == [k \in keys |-> ParseOrNull(node, k)]

\* await client.mget(...keys) resolves
Mget(p) ==
    /\ Awaiting(p, "mget", "run")
    /\ LET i == sub[p].served
       IN  /\ pending[i] = <<>>
           /\ sub' = [sub EXCEPT ![p].state = "ok",
                                 ![p].val = MgetValues(replica[i], sub[p].keys)]
    /\ UNCHANGED <<store, primary, replica, pending, currentReadIndex, pc, loc, done,
                   written, wseq, calls, faults, expiries, adapter, socket, timer>>

\* await client.mget(...keys) rejects: catch, every value null
MgetFail(p) ==
    /\ Awaiting(p, "mget", "run")
    /\ faults < MaxFaults
    /\ faults' = faults + 1
    /\ sub' = [sub EXCEPT ![p].state = "ok",
                          ![p].val = [k \in sub[p].keys |-> NullVal]]
    /\ UNCHANGED <<store, primary, replica, pending, currentReadIndex, pc, loc, done,
                   written, wseq, calls, expiries, adapter, socket, timer>>

(***************************************************************************)
(* MessageRepository.getBatchRecentMessages(roomIds, limit); roomIds holds *)
(* each room once.  The loads of the missed rooms run side by side; when   *)
(* one of them rejects the call throws at once, and the loads still        *)
(* running then are taken to have ended before it.                         *)
(***************************************************************************)
StartGetBatchRecentMessages(p, roomIds, limit) ==
    /\ Begin(p, "br_read",
             [NoLoc EXCEPT !.op = "getBatchRecentMessages", !.roomIds = roomIds,
                           !.limit = limit, !.since = wseq],
             CallMget({RecentKey(roomId) : roomId \in roomIds}))
    /\ GetReadClient
    /\ UNCHANGED <<store, nodeVars, faults, expiries, adapter, socket, timer>>

\* the ring is looked up in the store whenever it is empty
BatchRecentUsable_nonEmpty(value) == value.t = "msgs" /\ Len(value.list) > 0

\* value && Array.isArray(value)
BatchRecentUsable(value) == value.t = "msgs"

\* the rooms mget gave no array for
MissedRoomIds(roomIds, cachedResults) ==
    {roomId \in roomIds : ~BatchRecentUsable(cachedResults[RecentKey(roomId)])}

\* results[roomId] = value.slice(-limit) for the rooms mget gave an array for
HitResults(roomIds, cachedResults, limit) ==
    [roomId \in roomIds \ MissedRoomIds(roomIds, cachedResults) |->
        RecentSlice(cachedResults[RecentKey(roomId)], limit).list]

\* the object returned: one property per room id
ResultsVal(results) == [t |-> "rooms", of |-> results]

\* missedRoomIds.length = 0: return results
BatchRecentAllHit(p) ==
    /\ Settled(p, "br_read")
    /\ LET l == loc[p]
       IN  /\ MissedRoomIds(l.roomIds, sub[p].val) = {}
           /\ ReturnWith(p, [l EXCEPT !.hit = TRUE, !.cached = sub[p].val,
                                      !.results = HitResults(l.roomIds, sub[p].val, l.limit)],
                         "ok", ResultsVal(HitResults(l.roomIds, sub[p].val, l.limit)))
    /\ UNCHANGED <<store, cacheVars, calls, faults, expiries, adapter, socket, timer>>

\* missedRoomIds.length > 0: a load begins for each missed room; await Promise.all
BatchRecentMissed(p) ==
    /\ Settled(p, "br_read")
    /\ LET l == loc[p]
           missed == MissedRoomIds(l.roomIds, sub[p].val)
       IN  /\ missed # {}
           /\ Goto(p, "br_store",
                   [l EXCEPT !.cached = sub[p].val,
                             !.results = HitResults(l.roomIds, sub[p].val, l.limit),
                             !.stage = [roomId \in missed |->
                                           [at |-> "find", messages |-> <<>>]]],
                   NoSub)
    /\ UNCHANGED <<store, cacheVars, calls, faults, expiries, adapter, socket, timer>>

\* the load of roomId awaits at
Loading(p, roomId, at) ==
    /\ pc[p] = "br_store"
    /\ roomId \in DOMAIN loc[p].stage
    /\ loc[p].stage[roomId].at = at

\* the load of roomId: await Message.find({room: roomId})...limit(limit) resolves;
\* sortedMessages = messages.reverse(); writeThrough(cacheKey, sortedMessages) begins
BatchRecentFind(p, roomId) ==
    /\ Loading(p, roomId, "find")
    /\ loc' = [loc EXCEPT ![p].queries = @ + 1,
                          ![p].stage[roomId] =
                              [at |-> "write",
                               messages |-> Reverse(FindDesc(store, roomId, 0, loc[p].limit))]]
    /\ UNCHANGED <<store, cacheVars, pc, sub, done, calls, faults, expiries, adapter, socket, timer>>

\* the load of roomId: the primary setEx of its writeThrough resolves and the replica
\* writes are issued; return {roomId, messages: sortedMessages}
BatchRecentWrite(p, roomId) ==
    /\ Loading(p, roomId, "write")
    /\ \A r \in ReplicaIdx : Len(pending[r]) < MaxPending
    /\ LET k == RecentKey(roomId)
           data == ListVal(loc[p].stage[roomId].messages)
           text == JSONstringify(data)
           cmd == [key |-> k, ttl |-> TTL_RECENT_MESSAGES, text |-> text, wid |-> wseq + 1]
       IN  /\ primary' = NodeSetEx(primary, k, TTL_RECENT_MESSAGES, text, wseq + 1)
           /\ pending' = [r \in ReplicaIdx |-> Append(pending[r], cmd)]
           /\ written' = [j \in DOMAIN written \cup {k} |->
                             IF j = k THEN [v |-> data, wid |-> wseq + 1] ELSE written[j]]
    /\ wseq' = wseq + 1
    /\ loc' = [loc EXCEPT ![p].mutated = TRUE, ![p].stage[roomId].at = "done"]
    /\ UNCHANGED <<store, replica, currentReadIndex, pc, sub, done, calls, faults, expiries, adapter, socket, timer>>

\* the find of one load rejects: Promise.all rejects; catch, throw error
BatchRecentFindFail(p, roomId) ==
    /\ Loading(p, roomId, "find")
    /\ StoreFault
    /\ Return(p, "err", NullVal)
    /\ UNCHANGED <<store, cacheVars, calls, expiries, adapter, socket, timer>>

\* the writeThrough of one load throws: Promise.all rejects; catch, throw error
BatchRecentWriteFail(p, roomId) ==
    /\ Loading(p, roomId, "write")
    /\ faults < MaxFaults
    /\ faults' = faults + 1
    /\ Return(p, "err", NullVal)
    /\ UNCHANGED <<store, cacheVars, calls, expiries, adapter, socket, timer>>

\* results once dbResults.forEach has added the loaded rooms
WithLoaded(results, stage) ==
    [roomId \in DOMAIN results \cup DOMAIN stage |->
        IF roomId \in DOMAIN stage THEN stage[roomId].messages ELSE results[roomId]]

\* Promise.all resolves: every load has returned; return results
BatchRecentReturn(p) ==
    /\ pc[p] = "br_store"
    /\ \A roomId \in DOMAIN loc[p].stage : loc[p].stage[roomId].at = "done"
    /\ ReturnWith(p, [loc[p] EXCEPT !.results = WithLoaded(@, loc[p].stage)],
                  "ok", ResultsVal(WithLoaded(loc[p].results, loc[p].stage)))
    /\ UNCHANGED <<store, cacheVars, calls, faults, expiries, adapter, socket, timer>>

BatchRecentSteps(p) ==
    \/ Mget(p)
    \/ BatchRecentAllHit(p)
    \/ BatchRecentMissed(p)
    \/ \E roomId \in loc[p].roomIds : BatchRecentFind(p, roomId) \/ BatchRecentWrite(p, roomId)
    \/ BatchRecentReturn(p)

BatchRecentFaults(p) ==
    \/ MgetFail(p)
    \/ \E roomId \in loc[p].roomIds :
          BatchRecentFindFail(p, roomId) \/ BatchRecentWriteFail(p, roomId)

(***************************************************************************)
(* Steps shared by the specifications below.                               *)
(***************************************************************************)
\* the cache nodes answer the coordinator call process p awaits
CacheSteps(p) ==
    \/ WriteThroughPrimary(p)
    \/ ReadFromShardGet(p)
    \/ DeletePrimary(p)
    \/ \E r \in ReplicaIdx : DeleteReplica(p, r)

\* a cache node rejects a command of the coordinator call process p awaits
CacheFaults(p) ==
    \/ WriteThroughPrimaryFail(p)
    \/ ReadFromShardGetFail(p)
    \/ ReadFromShardFallback(p)
    \/ ReadFromShardFallbackFail(p)
    \/ DeletePrimaryFail(p)
    \/ \E r \in ReplicaIdx : DeleteReplicaFail(p, r)

SaveSteps(p) ==
    \/ SaveStore(p)
    \/ SavePopulate(p)
    \/ SaveCached(p)
    \/ AddToRecentPush(p)
    \/ AddToRecentDone(p)
    \/ IncrementCached(p)
    \/ IncrementMissed(p)
    \/ IncrementRecount(p)
    \/ IncrementDone(p)
    \/ SaveReturn(p)

SaveFaults(p) ==
    \/ SaveStoreFail(p)
    \/ SavePopulateFail(p)
    \/ SaveCacheFailed(p)
    \/ IncrementRecountFail(p)

MarkSteps(p) == MarkUpdate(p) \/ MarkReturn(p)

MarkFaults(p) == MarkUpdateFail(p) \/ MarkDeleteFailed(p)

ReactSteps(p) ==
    \/ ReactFind(p)
    \/ ReactFindNone(p)
    \/ ReactApply(p)
    \/ ReactCached(p)
    \/ ReactReturn(p)

ReactFaults(p) == ReactApplyFail(p) \/ ReactCacheFailed(p)

CountSteps(p) ==
    \/ CountHit(p)
    \/ CountMiss(p)
    \/ CountLoad(p)
    \/ CountReturn(p)

BatchSteps(p) ==
    \/ BatchHit(p)
    \/ BatchMiss(p)
    \/ BatchLoad(p)
    \/ BatchReturn(p)

RecentSteps(p) ==
    \/ RecentHit(p)
    \/ RecentMiss(p)
    \/ RecentLoad(p)
    \/ RecentReturn(p)

MessageSteps(p) ==
    \/ MessageHit(p)
    \/ MessageMiss(p)
    \/ MessageLoad(p)
    \/ MessageLoadNone(p)
    \/ MessageReturn(p)

CountFaults(p) == CountLoadFail(p) \/ CountCacheFailed(p)

BatchFaults(p) == BatchLoadFail(p) \/ BatchCacheFailed(p)

RecentFaults(p) == RecentLoadFail(p) \/ RecentCacheFailed(p)

MessageFaults(p) == MessageLoadFail(p) \/ MessageCacheFailed(p)

(***************************************************************************)
(* Spec: one caller at a time uses the repository on an empty store and an *)
(* empty cache; store operations and cache commands may fail.              *)
(***************************************************************************)
Init == InitCommon /\ store = <<>>

\* the ids of the stored messages and one id that is not stored
KnownIds == 1..(Len(store) + 1)

\* a caller saves a message
StartSave(p) == \E roomId \in Rooms : Len(store) < MaxMsgs /\ StartSaveMessage(p, roomId)

\* a caller begins a chat mutation
StartMutation(p) ==
    \/ StartSave(p)
    \/ \E id \in KnownIds, u \in Users : StartMarkMessagesAsRead(p, id, u)
    \/ \E id \in KnownIds, u \in Users, reaction \in Reactions, type \in ReactionTypes :
          StartUpdateMessageReaction(p, id, reaction, u, type)

\* a caller begins a read with the default arguments
StartDefaultRead(p) ==
    \/ \E id \in KnownIds : StartGetMessageById(p, id)
    \/ \E roomId \in Rooms : StartGetMessageCount(p, roomId)
    \/ \E roomId \in Rooms : StartGetMessagesBatch(p, roomId, 0, DefaultBatchLimit, 0)
    \/ \E roomId \in Rooms : StartGetRecentMessages(p, roomId, DefaultRecentLimit)

Next ==
    \/ \E p \in SeqProcs : CallsLeft /\ (StartMutation(p) \/ StartDefaultRead(p))
    \/ \E p \in Procs :
          \/ CacheSteps(p) \/ CacheFaults(p)
          \/ SaveSteps(p) \/ SaveFaults(p)
          \/ MarkSteps(p) \/ MarkFaults(p)
          \/ ReactSteps(p) \/ ReactFaults(p)
          \/ MessageSteps(p) \/ MessageFaults(p)
          \/ CountSteps(p) \/ CountFaults(p)
          \/ BatchSteps(p) \/ BatchFaults(p)
          \/ RecentSteps(p) \/ RecentFaults(p)
    \/ \E r \in ReplicaIdx : ReplicaApply(r) \/ ReplicaWriteFail(r)

Spec == Init /\ [][Next]_vars

(***************************************************************************)
(* SpecRing: messages are saved to one room one after the other on a       *)
(* healthy cache, each save beginning once the replica writes of the       *)
(* earlier ones have been applied.                                         *)
(***************************************************************************)
\* the limits callers pass to getRecentMessages: the default and one above the ring size
RecentLimits == {DefaultRecentLimit, MaxRecent + 1}

\* every replica write issued so far has been applied or has failed
ReplicasSettled == \A r \in ReplicaIdx : pending[r] = <<>>

StartAppend(p) ==
    /\ Len(store) < MaxAppends
    /\ ReplicasSettled
    /\ \E roomId \in Rooms :
          /\ IF store = <<>> THEN TRUE ELSE roomId = store[1].room
          /\ StartSaveMessage(p, roomId)

\* the getRecentMessages calls made so far: every save has stored one message
RingReads == calls - Len(store)

\* between two saves the caller asks for the recent messages of a room
StartRingRead(p) ==
    /\ RingReads < MaxCalls
    /\ \E roomId \in Rooms, limit \in RecentLimits :
          StartGetRecentMessages(p, roomId, limit)

NextRing ==
    \/ \E p \in SeqProcs : StartAppend(p) \/ StartRingRead(p)
    \/ \E p \in Procs : CacheSteps(p) \/ SaveSteps(p) \/ RecentSteps(p)
    \/ \E r \in ReplicaIdx : ReplicaApply(r)

SpecRing == Init /\ [][NextRing]_vars

(***************************************************************************)
(* SpecCold: the read paths on a healthy, initially empty cache in front   *)
(* of a store that already holds the messages of one room.                 *)
(***************************************************************************)
\* a store holding n messages of room roomId, saved one after the other
StoreOf(roomId, n) == [i \in 1..n |-> NewDoc(roomId, i)]

ColdSizes == {MaxMsgs, MaxRecent + 1}
ColdPages == {0}
BatchLimits == {1, DefaultBatchLimit}
Cursors == 0..(MaxMsgs + 1)

InitCold == InitCommon /\ \E n \in ColdSizes : store = StoreOf(1, n)

StartRead(p) ==
    \/ \E roomId \in Rooms : StartGetMessageCount(p, roomId)
    \/ \E roomId \in Rooms, page \in ColdPages, limit \in BatchLimits, before \in Cursors :
          StartGetMessagesBatch(p, roomId, page, limit, before)
    \/ \E roomId \in Rooms, limit \in RecentLimits : StartGetRecentMessages(p, roomId, limit)

NextCold ==
    \/ \E p \in SeqProcs : CallsLeft /\ StartRead(p)
    \/ \E p \in Procs :
          \/ WriteThroughPrimary(p) \/ ReadFromShardGet(p)
          \/ CountSteps(p) \/ BatchSteps(p) \/ RecentSteps(p)
    \/ \E r \in ReplicaIdx : ReplicaApply(r)

SpecCold == InitCold /\ [][NextCold]_vars

(***************************************************************************)
(* SpecRead: concurrent callers mark stored messages as read, on a healthy  *)
(* cache that holds every message.                                         *)
(***************************************************************************)
\* a node on which message:{id} of every message of st has been written, in id order
WarmNode(st) ==
    [k \in {MessageKey(id) : id \in 1..Len(st)} |->
        [text |-> JSONstringify(MsgVal(ToObject(st, k[2]))), ttl |-> TTL_MESSAGES,
         wid |-> k[2]]]

\* every stored message has been read once through getMessageById, and the replica
\* writes of these calls have been applied
InitRead ==
    /\ InitCallers
    /\ store = StoreOf(1, MaxMsgs)
    /\ primary = WarmNode(store)
    /\ replica = [r \in ReplicaIdx |-> WarmNode(store)]
    /\ pending = [r \in ReplicaIdx |-> <<>>]
    /\ currentReadIndex = 0
    /\ written = [k \in DOMAIN WarmNode(store) |->
                     [v |-> MsgVal(ToObject(store, k[2])), wid |-> k[2]]]
    /\ wseq = Len(store)

StartReceipt(p) == \E id \in MsgIds, u \in Users : StartMarkMessagesAsRead(p, id, u)

NextRead ==
    \/ \E p \in Procs : CallsLeft /\ StartReceipt(p)
    \/ \E p \in Procs : DeletePrimary(p)
    \/ \E p \in Procs, r \in ReplicaIdx : DeleteReplica(p, r)
    \/ \E p \in Procs : MarkSteps(p)

SpecRead == InitRead /\ [][NextRead]_vars

(***************************************************************************)
(* Claims.                                                                 *)
(***************************************************************************)

\* C3: writeThrough returns success as soon as its primary write has
\* completed, whatever becomes of the replica writes: a call whose primary
\* write is done is never left waiting for a replica and never ends in error.
WriteThroughReturnsAtPrimaryWrite ==
    \A p \in Procs :
        (sub[p].fn = "writeThrough" /\ sub[p].wrote) => sub[p].state = "ok"

\* C3 witness: a writeThrough has returned success while one replica write of
\* it is still in flight and another one has failed.
WriteThroughReturnedBeforeReplicas ==
    \E p \in Procs, r1, r2 \in ReplicaIdx :
        /\ sub[p].fn = "writeThrough" /\ sub[p].state = "ok"
        /\ sub[p].key \in DOMAIN written
        /\ \E i \in 1..Len(pending[r1]) : pending[r1][i].wid = written[sub[p].key].wid
        /\ pending[r2] = <<>>
        /\ ~Synced(replica[r2], sub[p].key)
        /\ expiries = 0

\* C4 as stated: a read that follows a successful writeThrough of the key,
\* with no later delete or expiry of the key, returns the value written.
RoundTripAnyReplica ==
    \A p \in Procs :
        (sub[p].fn = "readFromShard" /\ sub[p].state = "ok" /\ sub[p].expect # NullVal)
            => sub[p].val = sub[p].expect

\* C4 amended: such a read, when it is served by a replica that has applied
\* that call's replica write, returns the JSON form of the value written
\* (the value itself for plain JSON data; Dates and ObjectIds as strings).
RoundTripSyncedReplica ==
    \A p \in Procs :
        (sub[p].fn = "readFromShard" /\ sub[p].state = "ok"
            /\ sub[p].expect # NullVal /\ sub[p].synced)
            => sub[p].val = JSONForm(sub[p].expect)

\* C4 witness: a message object was written, replicated and read back.
RoundTripOfMessageRead ==
    \E p \in Procs :
        /\ sub[p].fn = "readFromShard" /\ sub[p].state = "ok"
        /\ sub[p].synced
        /\ sub[p].expect.t = "msg"
        /\ sub[p].val # sub[p].expect

\* C1: while the store write of saveMessage is awaited the call has issued no cache
\* command and changed no cache node; a saveMessage that threw at the store write
\* changed no cache node; and whenever saveMessage has issued a cache command or
\* changed a cache node, its message is already in the store.
StoreWritePrecedesCacheWrites ==
    \A p \in Procs :
        /\ pc[p] = "save_store" => sub[p].fn = "none" /\ ~loc[p].mutated
        /\ (loc[p].op = "saveMessage" /\ (sub[p].fn # "none" \/ loc[p].mutated)) =>
               (loc[p].id \in 1..Len(store) /\ loc[p].doc.t = "msg")
        /\ (done[p].call.op = "saveMessage" /\ done[p].call.id = 0) =>
               (done[p].status = "err" /\ ~done[p].call.mutated)

\* C1 witness: a saveMessage threw at its store write while the cache held entries
SaveFailedAtStoreWrite ==
    \E p \in Procs :
        /\ done[p].call.op = "saveMessage"
        /\ done[p].call.id = 0
        /\ done[p].status = "err"
        /\ primary # EmptyNode
        /\ \E r \in ReplicaIdx : replica[r] # EmptyNode

\* C2 as stated: a chat mutation whose store operation succeeded returns normally
ChatMutationCompletesOnceStored ==
    \A p \in Procs :
        (/\ done[p].call.op \in {"saveMessage", "markMessagesAsRead", "updateMessageReaction"}
         /\ done[p].call.stored) => done[p].status = "ok"

\* C9 as stated: once markMessagesAsRead has returned normally, no node holds an entry
\* message:{id} that was written before the call returned
ReadReceiptEvictsEverywhere ==
    \A p \in Procs :
        (done[p].call.op = "markMessagesAsRead" /\ done[p].status = "ok") =>
            LET k == MessageKey(done[p].call.id)
                Stale(node) == NodeHas(node, k) /\ node[k].wid <= done[p].at
            IN  ~Stale(primary) /\ \A r \in ReplicaIdx : ~Stale(replica[r])

\* the messages of the store in arrival order, as JSON.parse returns them
ArrivedMessages == [i \in 1..Len(store) |-> MsgToJSON(ToObject(store, i))]

\* no call is running and no replica write is in flight
Quiescent == ReplicasSettled /\ \A p \in Procs : pc[p] = "idle"

\* C5: once n one-at-a-time appends to a room have completed, replica writes
\* included, recent:{room} holds on the primary and on every replica exactly the
\* last min(n, 50) messages in arrival order.
RingHoldsLastMessages ==
    (Quiescent /\ store # <<>>) =>
        LET k == RecentKey(store[1].room)
            ring == JSONstringify(ListVal(SliceLast(ArrivedMessages, MaxRecent)))
        IN  /\ NodeHas(primary, k) /\ NodeGet(primary, k) = ring
            /\ \A r \in ReplicaIdx : NodeHas(replica[r], k) /\ NodeGet(replica[r], k) = ring

\* C5 witness: 60 appends have completed and the ring holds 50 messages, the
\* eleventh message first
RingAfterSixtyAppends ==
    /\ Quiescent
    /\ Len(store) = MaxAppends
    /\ LET ring == JSONparse(NodeGet(primary, RecentKey(store[1].room))).list
       IN  /\ Len(ring) = MaxRecent
           /\ ring[1] = ArrivedMessages[MaxAppends - MaxRecent + 1]

\* the list a node holds under recent:{roomId}
RecentOn(node, roomId) == JSONparse(NodeGet(node, RecentKey(roomId))).list

\* C6 as stated: every value stored under recent:{roomId}, on the primary or on a
\* replica, holds at most 50 messages
RecentRingBounded ==
    \A roomId \in Rooms :
        /\ NodeHas(primary, RecentKey(roomId)) => Len(RecentOn(primary, roomId)) <= MaxRecent
        /\ \A r \in ReplicaIdx :
              NodeHas(replica[r], RecentKey(roomId)) =>
                  Len(RecentOn(replica[r], roomId)) <= MaxRecent

\* C7: getMessageCount returns the exact number of the room's messages in the store;
\* on a miss it has queried the store once and the cache holds the count; when a
\* count has been populated the read of the next call finds it, and a call that
\* finds it returns it without a store query.
CountCacheAside ==
    \A p \in Procs :
        /\ done[p].call.op = "getMessageCount" =>
              /\ done[p].status = "ok"
              /\ done[p].val = Num(CountDocuments(store, done[p].call.room))
              /\ done[p].call.hit =>
                    (done[p].call.queries = 0 /\ done[p].val = done[p].call.cached)
              /\ ~done[p].call.hit =>
                    /\ done[p].call.queries = 1
                    /\ NodeHas(primary, CountKey(done[p].call.room))
                    /\ JSONparse(NodeGet(primary, CountKey(done[p].call.room))) = done[p].val
        /\ (Settled(p, "gc_read") /\ sub[p].expect # NullVal) => sub[p].val = sub[p].expect
        /\ pc[p] = "gc_store" => CountKey(loc[p].room) \notin DOMAIN written

\* C7 witness: a second getMessageCount returned the populated count of a non-empty
\* room without a store query
CountServedFromCache ==
    \E p \in Procs :
        /\ done[p].call.op = "getMessageCount"
        /\ done[p].call.hit
        /\ done[p].call.queries = 0
        /\ done[p].val.n > 0
        /\ done[p].val.n = CountDocuments(store, done[p].call.room)

\* the getMessagesBatch call c had a before cursor and read a cached batch with an
\* oldest timestamp
CursorMeetsCachedBatch(c) ==
    /\ c.op = "getMessagesBatch"
    /\ c.before # 0
    /\ c.cached.t = "batch"
    /\ c.cached.oldestTimestamp # NoTime

\* C10: a getMessagesBatch with a before cursor that reads a cached batch with oldest
\* timestamp T returns the cached batch, without a store query or a cache write, iff
\* T <= before; otherwise it queries the store once, rewrites the cache entry and
\* returns the batch found.
BatchFreshnessBoundary ==
    \A p \in Procs :
        LET c == done[p].call
            T == TimeOf(c.cached.oldestTimestamp)
        IN  CursorMeetsCachedBatch(c) =>
              /\ done[p].status = "ok"
              /\ c.hit <=> T <= c.before
              /\ c.hit => (done[p].val = c.cached /\ c.queries = 0 /\ ~c.mutated)
              /\ ~c.hit =>
                    /\ c.queries = 1
                    /\ c.mutated
                    /\ done[p].val =
                          BatchResult(FindDesc(store, c.room, c.before, c.limit + 1),
                                      c.limit, done[p].val.cachedAt)
                    /\ done[p].val.cachedAt > c.cached.cachedAt

\* C10 witness: a cursor one tick before the cached batch's oldest timestamp missed
BatchStaleForEarlierCursor ==
    \E p \in Procs :
        /\ CursorMeetsCachedBatch(done[p].call)
        /\ done[p].call.before + 1 = TimeOf(done[p].call.cached.oldestTimestamp)
        /\ ~done[p].call.hit
        /\ done[p].call.queries = 1

\* the call c is a markMessagesAsRead of the stored message id by user u
MarksAsRead(c, id, u) ==
    c.op = "markMessagesAsRead" /\ c.id = id /\ c.user = u /\ id \in 1..Len(store)

\* user u has a read receipt on the stored message id
HasReceipt(id, u) == \E j \in 1..Len(store[id].readers) : store[id].readers[j] = u

\* C8: under any interleaving of markMessagesAsRead calls every message holds at most
\* one read receipt per user; a completed call leaves the receipt in place; and once
\* a call for (id, user) has completed, the updateMany of a further call for the same
\* (id, user) matches no document and the call reports zero modified documents.
ReadReceiptsIdempotent ==
    /\ \A id \in 1..Len(store) : \A j, k \in 1..Len(store[id].readers) :
          store[id].readers[j] = store[id].readers[k] => j = k
    /\ \A p \in Procs, id \in MsgIds, u \in Users :
          /\ (MarksAsRead(done[p].call, id, u) /\ done[p].status = "ok") =>
                /\ HasReceipt(id, u)
                /\ done[p].val = Num(done[p].call.count)
                /\ done[p].call.count = IF done[p].call.hit THEN 0 ELSE 1
                /\ \A q \in Procs :
                      (MarksAsRead(loc[q], id, u) /\ pc[q] = "read_update") =>
                          ModifiedCount(store, {id}, u) = 0

\* C8 witness: a markMessagesAsRead repeated for a message the user had already
\* marked completed with zero modified documents
RepeatedMarkChangedNothing ==
    \E p \in Procs, id \in MsgIds, u \in Users :
        /\ MarksAsRead(done[p].call, id, u)
        /\ done[p].status = "ok"
        /\ done[p].call.hit
        /\ done[p].val = Num(0)
        /\ Len(store[id].readers) = 1

\* the number of stored messages of roomId matching the cursor before (0: no cursor)
MatchingCursor(roomId, before) ==
    Cardinality({i \in 1..Len(store) :
                    store[i].room = roomId /\ (before = 0 \/ store[i].ts < before)})

\* C11: a getMessagesBatch that missed returns exactly min(n, limit) messages, n being
\* the number of the room's stored messages matching the cursor, and hasMore is true
\* iff n > limit.
BatchSizeAndHasMore ==
    \A p \in Procs :
        LET c == done[p].call
            n == MatchingCursor(c.room, c.before)
        IN  (c.op = "getMessagesBatch" /\ ~c.hit /\ done[p].status = "ok") =>
              /\ done[p].val.t = "batch"
              /\ Len(done[p].val.messages) = Min(n, c.limit)
              /\ done[p].val.hasMore <=> n > c.limit

\* C11 witness: with more than 30 matching messages a miss returned exactly 30 and
\* hasMore
BatchOfThirtyWithMore ==
    \E p \in Procs :
        /\ done[p].call.op = "getMessagesBatch"
        /\ ~done[p].call.hit
        /\ done[p].call.limit = DefaultBatchLimit
        /\ MatchingCursor(done[p].call.room, done[p].call.before) > DefaultBatchLimit
        /\ Len(done[p].val.messages) = DefaultBatchLimit
        /\ done[p].val.hasMore

\* the messages of roomId in the store in arrival order, as JSON.parse returns them
RoomMessages(roomId) == SelectSeq(ArrivedMessages, LAMBDA m : m.room = roomId)

\* the list getRecentMessages has to return for limit: the newest Min(n, limit) of msgs
NewestOf(msgs, limit) ==
    ListVal(SubSeq(msgs, Len(msgs) - Min(Len(msgs), limit) + 1, Len(msgs)))

\* C12 as stated: after n sequential saves into an empty room without ring, a
\* getRecentMessages(roomId, limit) returns the min(n, limit) most recently saved
\* messages in ascending order, for every limit
RecentReturnsLastSaved ==
    \A p \in SeqProcs :
        LET c == done[p].call
        IN  (pc[p] = "idle" /\ c.op = "getRecentMessages") =>
              /\ done[p].status = "ok"
              /\ JSONForm(done[p].val) = NewestOf(RoomMessages(c.room), c.limit)

\* C12: after n sequential saves into an empty room without ring, a
\* getRecentMessages(roomId, limit) with limit at most the ring size 50 returns the
\* min(n, limit) most recently saved messages in ascending order.
RecentReturnsLastSavedWithinRing ==
    \A p \in SeqProcs :
        LET c == done[p].call
        IN  (pc[p] = "idle" /\ c.op = "getRecentMessages" /\ c.limit <= MaxRecent) =>
              /\ done[p].status = "ok"
              /\ JSONForm(done[p].val) = NewestOf(RoomMessages(c.room), c.limit)

\* C12 witness: after 21 saves getRecentMessages(room, 20) has returned the messages
\* M2..M21
TwentyOfTwentyOneSaved ==
    \E p \in SeqProcs :
        /\ pc[p] = "idle"
        /\ done[p].call.op = "getRecentMessages"
        /\ done[p].call.limit = DefaultRecentLimit
        /\ Len(store) = DefaultRecentLimit + 1
        /\ done[p].call.room = store[1].room
        /\ done[p].val = ListVal(SubSeq(ArrivedMessages, 2, DefaultRecentLimit + 1))

\* C13: updateMessageReaction on an id the store does not hold throws to its caller,
\* with the not-found error when findById answered, without having written a cache
\* entry, deleted a batch page or changed the store; it issues no cache command.
ReactionOnMissingMessageFails ==
    \A p \in Procs :
        /\ (loc[p].op = "updateMessageReaction" /\ loc[p].id \notin 1..Len(store)) =>
              (pc[p] = "react_find" /\ sub[p].fn = "none" /\ ~loc[p].mutated)
        /\ LET c == done[p].call
           IN  (c.op = "updateMessageReaction" /\ c.id \notin 1..Len(store)) =>
                 /\ done[p].status = "err"
                 /\ ~c.mutated /\ ~c.stored
                 /\ c.queries = 1 => done[p].val = NotFoundError

\* C13 witness: a reaction on an id the store does not hold has been refused as not
\* found
MissingMessageRefused ==
    \E p \in Procs :
        /\ done[p].call.op = "updateMessageReaction"
        /\ done[p].call.id \notin 1..Len(store)
        /\ done[p].status = "err"
        /\ done[p].val = NotFoundError

(***************************************************************************)
(* SpecReact: pages of one room are read and reactions are set on its      *)
(* messages, one call after the other on a healthy cache.                  *)
(***************************************************************************)
\* the first page and the first page past those invalidateMessageBatchesForRoom names
ReactPages == {0, MaxPages}

StartReactOrRead(p) ==
    \/ \E roomId \in Rooms, page \in ReactPages :
          StartGetMessagesBatch(p, roomId, page, DefaultBatchLimit, 0)
    \/ \E id \in KnownIds, u \in Users, reaction \in Reactions, type \in ReactionTypes :
          StartUpdateMessageReaction(p, id, reaction, u, type)

NextReact ==
    \/ \E p \in SeqProcs : CallsLeft /\ StartReactOrRead(p)
    \/ \E p \in Procs : CacheSteps(p) \/ BatchSteps(p) \/ ReactSteps(p)
    \/ \E r \in ReplicaIdx : ReplicaApply(r)

InitReact == InitCommon /\ store = StoreOf(1, MaxMsgs)

SpecReact == InitReact /\ [][NextReact]_vars

\* node holds under k an entry written before the call of process p returned
HeldSince(node, k, p) == NodeHas(node, k) /\ node[k].wid <= done[p].at

\* C14 as stated: once updateMessageReaction has succeeded for a message of room R,
\* message:{id} holds the full updated message on the primary, and no page
\* messages:R:{p} cached before the call is left on the primary or on a replica
ReactionEvictsEveryPage ==
    \A p \in Procs :
        LET c == done[p].call
        IN  (c.op = "updateMessageReaction" /\ done[p].status = "ok") =>
              /\ HeldSince(primary, MessageKey(c.id), p) =>
                    NodeGet(primary, MessageKey(c.id)) = JSONstringify(c.doc)
              /\ \A page \in 0..MaxPages :
                    /\ ~HeldSince(primary, BatchKey(c.room, page), p)
                    /\ \A r \in ReplicaIdx : ~HeldSince(replica[r], BatchKey(c.room, page), p)

\* the same for the pages 0..9 that invalidateMessageBatchesForRoom names
ReactionEvictsFirstPages ==
    \A p \in Procs :
        LET c == done[p].call
        IN  (c.op = "updateMessageReaction" /\ done[p].status = "ok") =>
              /\ HeldSince(primary, MessageKey(c.id), p) =>
                    NodeGet(primary, MessageKey(c.id)) = JSONstringify(c.doc)
              /\ \A page \in 0..(MaxPages - 1) :
                    /\ ~HeldSince(primary, BatchKey(c.room, page), p)
                    /\ \A r \in ReplicaIdx : ~HeldSince(replica[r], BatchKey(c.room, page), p)

(***************************************************************************)
(* SpecBatch: recent messages are read room by room and for several rooms  *)
(* at once, one call after the other on a healthy cache, the store holding *)
(* messages already.  SpecBatchFaulty: the same with a cache read, a store *)
(* query or a cache write of getBatchRecentMessages failing.               *)
(***************************************************************************)
BatchRooms == 1..(NumRooms + 1)
BatchRecentLimits == {1, DefaultRecentLimit}

\* n messages sent to the rooms of BatchRooms in turn
StoreOfRooms(n) == [i \in 1..n |-> NewDoc(((i - 1) % Cardinality(BatchRooms)) + 1, i)]

\* every message is in room 1, or every room holds MaxMsgs messages
InitBatch ==
    /\ InitCommon
    /\ store \in {StoreOf(1, MaxMsgs), StoreOfRooms(MaxMsgs * Cardinality(BatchRooms))}

StartBatchRead(p) ==
    \/ \E roomId \in BatchRooms, limit \in BatchRecentLimits :
          StartGetRecentMessages(p, roomId, limit)
    \/ \E roomIds \in SUBSET BatchRooms \ {{}}, limit \in BatchRecentLimits :
          StartGetBatchRecentMessages(p, roomIds, limit)

NextBatch ==
    \/ \E p \in SeqProcs : CallsLeft /\ StartBatchRead(p)
    \/ \E p \in Procs :
          \/ WriteThroughPrimary(p) \/ ReadFromShardGet(p)
          \/ RecentSteps(p) \/ BatchRecentSteps(p)
    \/ \E r \in ReplicaIdx : ReplicaApply(r)

SpecBatch == InitBatch /\ [][NextBatch]_vars

NextBatchFaulty ==
    \/ NextBatch
    \/ \E p \in Procs : BatchRecentFaults(p)

SpecBatchFaulty == InitBatch /\ [][NextBatchFaulty]_vars

\* C15: getBatchRecentMessages(roomIds, limit) returns one entry per requested room
\* and no other.  A room whose ring was cached when the call began gets the last
\* limit entries of the ring and no store query is made for it; every other room
\* gets the most recent limit messages of the store in ascending order, one store
\* query is made for it and recent:{roomId} holds them afterwards.
BatchRecentPerRoom ==
    \A p \in SeqProcs :
        LET c == done[p].call
            v == done[p].val
        IN  /\ pc[p] = "br_store" =>
                  \A roomId \in DOMAIN loc[p].stage :
                      loc[p].stage[roomId].at # "done" =>
                          ~NodeHas(primary, RecentKey(roomId))
            /\ (pc[p] = "idle" /\ c.op = "getBatchRecentMessages") =>
                  /\ done[p].status = "ok"
                  /\ v.t = "rooms"
                  /\ DOMAIN v.of = c.roomIds
                  /\ c.queries = Cardinality(DOMAIN c.stage)
                  /\ \A roomId \in c.roomIds :
                        LET k == RecentKey(roomId)
                        IN  /\ NodeHas(primary, k)
                            /\ IF primary[k].wid <= c.since
                               THEN /\ roomId \notin DOMAIN c.stage
                                    /\ v.of[roomId] =
                                          SliceLast(JSONparse(NodeGet(primary, k)).list,
                                                    c.limit)
                               ELSE /\ roomId \in DOMAIN c.stage
                                    /\ JSONForm(ListVal(v.of[roomId])) =
                                          NewestOf(RoomMessages(roomId), c.limit)
                                    /\ NodeGet(primary, k) =
                                          JSONstringify(ListVal(v.of[roomId]))

\* C15 witness: a call for two rooms has answered one from its cached ring and the
\* other from the store
BatchRecentHitAndMiss ==
    \E p \in SeqProcs :
        /\ pc[p] = "idle"
        /\ done[p].call.op = "getBatchRecentMessages"
        /\ done[p].status = "ok"
        /\ Cardinality(done[p].call.roomIds) = 2
        /\ Cardinality(DOMAIN done[p].call.stage) = 1
        /\ \E roomId \in DOMAIN done[p].call.stage : done[p].val.of[roomId] # <<>>

\* C16 as stated: a getBatchRecentMessages during which the store query or the ring
\* write of one room failed still returns, with one entry per requested room
PartialBatchFailureIsolated ==
    \A p \in Procs :
        done[p].call.op = "getBatchRecentMessages" =>
            /\ done[p].status = "ok"
            /\ DOMAIN done[p].val.of = done[p].call.roomIds

(***************************************************************************)
(* RedisClusterClient (utils/redisCluster.js), the adapter CacheService    *)
(* uses, and CacheService.getCachedMessageBatch.  A handler runs from      *)
(* `await this.connect()` to the command it sends without interruption;    *)
(* a command is answered at once.                                          *)
(***************************************************************************)
repoVars == <<store, primary, replica, pending, currentReadIndex,
              pc, loc, sub, done, written, wseq, calls, faults, expiries,
              socket, timer>>

\* MESSAGE_BATCH of CacheService.TTL
CACHE_TTL_MESSAGE_BATCH == 600

\* connect(): the adapter afterwards (this.cluster is the client returned)
Connect(a) ==
    IF a.cluster # "null" THEN a
    ELSE IF ~a.configured THEN [a EXCEPT !.useMock = TRUE, !.cluster = "mock",
                                         !.mock = EmptyNode]
    ELSE [a EXCEPT !.cluster = "cluster", !.clustered = TRUE]

\* the cluster.on('error') handler of an IORedis.Cluster created earlier
ClusterError ==
    /\ adapter.clustered
    /\ ~adapter.useMock
    /\ adapter' = [adapter EXCEPT !.useMock = TRUE, !.cluster = "mock", !.mock = EmptyNode,
                                  !.demoted = TRUE, !.last = NoOp]
    /\ UNCHANGED repoVars

\* the error event when useMock is set already: the handler only logs
ClusterErrorAgain ==
    /\ adapter.clustered
    /\ adapter.useMock
    /\ adapter.last # NoOp
    /\ adapter' = [adapter EXCEPT !.last = NoOp]
    /\ UNCHANGED repoVars

\* a caller calls connect()
AdapterConnect ==
    /\ adapter.cluster = "null"
    /\ adapter' = Connect(adapter)
    /\ UNCHANGED repoVars

\* (typeof value === 'object' && value !== null) ? JSON.stringify(value) : String(value)
StrOf(value) == IF value.t = "str" THEN value.text ELSE JSONstringify(value)

\* what the backend of a holds: the texts of the cluster or the values of the mock
Held(a) == IF a.cluster = "cluster" THEN a.kv ELSE a.mock

\* the backend of a holds x under key
WithHeld(a, key, x) ==
    LET h == [k \in DOMAIN Held(a) \cup {key} |-> IF k = key THEN x ELSE Held(a)[k]]
    IN  IF a.cluster = "cluster" THEN [a EXCEPT !.kv = h] ELSE [a EXCEPT !.mock = h]

\* the backend of a holds nothing under key
WithoutHeld(a, key) ==
    LET h == [k \in DOMAIN Held(a) \ {key} |-> Held(a)[k]]
    IN  IF a.cluster = "cluster" THEN [a EXCEPT !.kv = h] ELSE [a EXCEPT !.mock = h]

\* what set hands to client.set as the value: the value itself when options.ttl is
\* given and useMock is set, str otherwise
SetArgument(a, value, ttl) == IF ttl # 0 /\ a.useMock THEN value ELSE Str(StrOf(value))

\* set(key, value, options): a cluster given (key, value, {ttl}) answers with a syntax
\* error and stores nothing
AdapterSet(key, value, ttl) ==
    /\ LET a == Connect(adapter)
           rejected == a.cluster = "cluster" /\ ttl # 0 /\ a.useMock
           x == SetArgument(a, value, ttl)
           b == IF rejected THEN a
                ELSE IF a.cluster = "cluster" THEN WithHeld(a, key, x.text)
                ELSE WithHeld(a, key, x)
       IN  adapter' = [b EXCEPT !.last = [NoOp EXCEPT !.op = "set", !.key = key,
                                                      !.backend = a.cluster]]
    /\ UNCHANGED repoVars

\* client.get(key): the string a cluster holds, the value a mock holds, or null
ClientGet(a, key) ==
    IF key \notin DOMAIN Held(a) THEN NullVal
    ELSE IF a.cluster = "cluster" THEN Str(Held(a)[key])
    ELSE Held(a)[key]

\* val is a string that is no JSON text
NotSerialized(val) == val.t = "str" /\ val.text.t = "raw"

\* try { return JSON.parse(val) } catch { return val }
ParseOrReturn(val) ==
    IF val.t = "str" /\ val.text.t = "json" THEN JSONparse(val.text) ELSE val

\* get(key)
AdapterGet(key) ==
    /\ LET a == Connect(adapter)
           val == ClientGet(a, key)
       IN  adapter' = [a EXCEPT !.last = [op |-> "get", key |-> key, backend |-> a.cluster,
                                          ret |-> ParseOrReturn(val),
                                          corrupt |-> NotSerialized(val)]]
    /\ UNCHANGED repoVars

\* del(key)
AdapterDel(key) ==
    /\ LET a == Connect(adapter)
       IN  adapter' = [WithoutHeld(a, key) EXCEPT
                          !.last = [NoOp EXCEPT !.op = "del", !.key = key,
                                                !.backend = a.cluster]]
    /\ UNCHANGED repoVars

\* expire, keys, hset, hget, hdel, hincrby, hvals: the client connect() returns
\* serves the command (expiry times and hashes are not represented)
OtherOps == {"expire", "keys", "hset", "hget", "hdel", "hincrby", "hvals"}

AdapterOther(op) ==
    /\ LET a == Connect(adapter)
       IN  /\ adapter.last.op # op
           /\ adapter' = [a EXCEPT !.last = [NoOp EXCEPT !.op = op, !.backend = a.cluster]]
    /\ UNCHANGED repoVars

\* quit(): this.cluster is set; await this.cluster.quit() begins
AdapterQuit ==
    /\ adapter.cluster # "null"
    /\ ~adapter.quitting
    /\ adapter' = [adapter EXCEPT !.quitting = TRUE]
    /\ UNCHANGED repoVars

\* cluster.quit() resolves: this.cluster = null
AdapterQuitDone ==
    /\ adapter.quitting
    /\ adapter' = [adapter EXCEPT !.quitting = FALSE, !.cluster = "null"]
    /\ UNCHANGED repoVars

\* cluster.quit() rejects: quit throws and this.cluster stays
AdapterQuitFail ==
    /\ adapter.quitting
    /\ adapter' = [adapter EXCEPT !.quitting = FALSE]
    /\ UNCHANGED repoVars

\* CacheService.getCachedMessageBatch(roomId, page): cached = await redisClient.get(key)
\* gave null, an object, or a number; return null or cached
StartGetCachedMessageBatch(roomId, page) ==
    /\ adapter.batch.at = "idle"
    /\ LET key == BatchKey(roomId, page)
           a == Connect(adapter)
           val == ClientGet(a, key)
           cached == ParseOrReturn(val)
       IN  adapter' =
              [a EXCEPT !.last = [op |-> "get", key |-> key, backend |-> a.cluster,
                                  ret |-> cached, corrupt |-> NotSerialized(val)],
                        !.batch = IF cached.t = "str"
                                  THEN [at |-> "del", key |-> key, backend |-> a.cluster,
                                        corrupt |-> TRUE, ret |-> NullVal]
                                  ELSE [at |-> "done", key |-> key, backend |-> a.cluster,
                                        corrupt |-> FALSE,
                                        ret |-> IF cached.t = "num" THEN NullVal
                                                ELSE cached]]
    /\ UNCHANGED repoVars

\* cached is a string, '[object ...' or one JSON.parse rejects:
\* await redisClient.del(key); return null
CachedBatchRemove ==
    /\ adapter.batch.at = "del"
    /\ LET a == Connect(adapter)
       IN  adapter' = [WithoutHeld(a, adapter.batch.key) EXCEPT
                          !.last = [NoOp EXCEPT !.op = "del", !.key = adapter.batch.key,
                                                !.backend = a.cluster],
                          !.batch.at = "done"]
    /\ UNCHANGED repoVars

\* the caller has the result
CachedBatchReturn ==
    /\ adapter.batch.at = "done"
    /\ adapter' = [adapter EXCEPT !.batch = NoBatch]
    /\ UNCHANGED repoVars

(***************************************************************************)
(* SpecAdapter: callers use the adapter and CacheService.getCachedMessage- *)
(* Batch while the cluster reports errors; redisNodes names nodes or none. *)
(***************************************************************************)
AdapterKeys == {BatchKey(1, 0)}

\* cacheData of cacheMessageBatch for no messages
CacheData == [t |-> "cacheData", messages |-> <<>>, hasMore |-> FALSE,
              timestamp |-> 0, oldestTimestamp |-> NoTime]

\* an object, its JSON text, and the placeholder string
AdapterValues == {CacheData, Str(JSONstringify(CacheData)), Str(Placeholder)}
AdapterTTLs == {0, CACHE_TTL_MESSAGE_BATCH}

InitAdapter ==
    /\ store = <<>>
    /\ primary = EmptyNode
    /\ replica = [r \in ReplicaIdx |-> EmptyNode]
    /\ pending = [r \in ReplicaIdx |-> <<>>]
    /\ currentReadIndex = 0
    /\ written = EmptyNode
    /\ wseq = 0
    /\ pc = [p \in Procs |-> "idle"]
    /\ loc = [p \in Procs |-> NoLoc]
    /\ sub = [p \in Procs |-> NoSub]
    /\ done = [p \in Procs |-> NoDone]
    /\ calls = 0
    /\ faults = 0
    /\ expiries = 0
    /\ adapter \in {NoAdapter, [NoAdapter EXCEPT !.configured = FALSE]}
    /\ socket = NoSocket
    /\ timer = NoTimer

NextAdapter ==
    \/ ClusterError
    \/ ClusterErrorAgain
    \/ AdapterConnect
    \/ \E key \in AdapterKeys, value \in AdapterValues, ttl \in AdapterTTLs :
          AdapterSet(key, value, ttl)
    \/ \E key \in AdapterKeys : AdapterGet(key) \/ AdapterDel(key)
    \/ \E op \in OtherOps : AdapterOther(op)
    \/ AdapterQuit
    \/ AdapterQuitDone
    \/ AdapterQuitFail
    \/ \E key \in AdapterKeys : StartGetCachedMessageBatch(key[2], key[3])
    \/ CachedBatchRemove
    \/ CachedBatchReturn

SpecAdapter == InitAdapter /\ [][NextAdapter]_vars

\* C17 as stated: once the error handler has switched the adapter to the in-memory
\* fallback, this.cluster is never an IORedis.Cluster again and every later operation
\* is served by the fallback
DemotionIsOneWay ==
    adapter.demoted =>
        /\ adapter.cluster # "cluster"
        /\ adapter.last.backend \in {"none", "mock"}

\* getCachedMessageBatch on a key whose value is no JSON text returns null and
\* has deleted the key on the backend it read it from, if that still was the backend
CachedBatchDropsCorruptEntry ==
    (/\ adapter.batch.at = "done" /\ adapter.batch.corrupt /\ adapter.last.op = "del"
     /\ adapter.last.backend = adapter.batch.backend
     /\ adapter.cluster = adapter.batch.backend) =>
        /\ adapter.batch.ret = NullVal
        /\ adapter.batch.key \notin DOMAIN Held(adapter)

\* C18 as stated: a get on a key whose stored value is not valid serialized data
\* returns null and the key is deleted, be it the get of the adapter or the read of
\* getCachedMessageBatch
CorruptReadReturnsNull ==
    /\ CachedBatchDropsCorruptEntry
    /\ (/\ adapter.last.op = "get" /\ adapter.last.corrupt /\ adapter.batch.at = "idle"
        /\ adapter.cluster = adapter.last.backend) =>
          /\ adapter.last.ret = NullVal
          /\ adapter.last.key \notin DOMAIN Held(adapter)

(***************************************************************************)
(* RedisShardingService.getShardKey(roomId), crc32(str), crc32Table.  A    *)
(* 32-bit integer is the pair <<hi, lo>> of its upper and lower 16 bits; a *)
(* string is the sequence of its char codes.  crc32Table is computed once  *)
(* and kept in _crc32Table: entry n is a function of n alone.              *)
(***************************************************************************)
RECURSIVE XorBits(_, _, _)
\* a ^ b for numbers of n bits
XorBits(a, b, n) ==
    IF n = 0 THEN 0 ELSE ((a + b) % 2) + 2 * XorBits(a \div 2, b \div 2, n - 1)

\* a ^ b
Xor32(a, b) == <<XorBits(a[1], b[1], 16), XorBits(a[2], b[2], 16)>>

\* a >>> 1 and a >>> 8
Shr1(a) == <<a[1] \div 2, (a[2] \div 2) + (a[1] % 2) * 32768>>
Shr8(a) == <<a[1] \div 256, (a[2] \div 256) + (a[1] % 256) * 256>>

\* -1, 0xEDB88320, and a char code or table index as 32-bit integers
Ones32 == <<65535, 65535>>
Poly32 == <<60856, 33568>>
ToInt32(n) == <<0, n>>

\* a & 0xFF
And255(a) == a[2] % 256

RECURSIVE TableLoop(_, _)
\* for (k = 0; k < 8; k++) c = (c & 1) ? (0xEDB88320 ^ (c >>> 1)) : (c >>> 1)
TableLoop(c, k) ==
    IF k = 8 THEN c
    ELSE TableLoop(IF c[2] % 2 = 1 THEN Xor32(Poly32, Shr1(c)) ELSE Shr1(c), k + 1)

\* this.crc32Table[n]
crc32Table(n) == TableLoop(ToInt32(n), 0)

RECURSIVE Crc32Loop(_, _, _)
\* for (i = 0; i < str.length; i++)
\*     crc = (crc >>> 8) ^ this.crc32Table[(crc ^ str.charCodeAt(i)) & 0xFF]
Crc32Loop(str, i, crc) ==
    IF i > Len(str) THEN crc
    ELSE Crc32Loop(str, i + 1,
                   Xor32(Shr8(crc), crc32Table(And255(Xor32(crc, ToInt32(str[i]))))))

\* crc32(str): crc = 0 ^ (-1); ...; return (crc ^ (-1)) >>> 0
crc32(str) == Xor32(Crc32Loop(str, 1, Ones32), Ones32)

\* a % m for the unsigned 32-bit integer a
Mod32(a, m) == (((a[1] % m) * (65536 % m)) + (a[2] % m)) % m

\* the number of shards: hash % 3
NumShards == 3

\* the result depends on where the read cursor stands
getShardKey_cursor(roomId) ==
    (Mod32(crc32(roomId), NumShards) + currentReadIndex) % NumShards

\* getShardKey(roomId): hash = crc32(roomId) >>> 0; return hash % 3
getShardKey(roomId) == Mod32(crc32(roomId), NumShards)

\* a caller calls getShardKey(roomId): nothing is awaited
ShardKeyCall(p, roomId) ==
    /\ pc[p] = "idle"
    /\ done' = [done EXCEPT ![p] = [call |-> [NoLoc EXCEPT !.op = "getShardKey",
                                                          !.doc = roomId],
                                    status |-> "ok",
                                    val |-> Num(getShardKey(roomId)),
                                    at |-> wseq]]
    /\ UNCHANGED <<store, cacheVars, pc, loc, sub, calls, faults, expiries, adapter, socket, timer>>

(***************************************************************************)
(* SpecShard: shard keys are computed while a caller uses the coordinator  *)
(* on a healthy cache.                                                     *)
(***************************************************************************)
\* the room ids "1", "2" and "123456789"
ShardRoomIds == {<<49>>, <<50>>, <<49, 50, 51, 52, 53, 54, 55, 56, 57>>}

NextShard ==
    \/ \E p \in Procs, roomId \in ShardRoomIds : ShardKeyCall(p, roomId)
    \/ \E p \in SeqProcs : CallsLeft /\ StartDirect(p)
    \/ \E p \in Procs : ReturnDirect(p) \/ CacheSteps(p)
    \/ \E r \in ReplicaIdx : ReplicaApply(r)

SpecShard == InitKV /\ [][NextShard]_vars

\* the calls of getShardKey whose results are held
ShardCalls == {p \in Procs : done[p].call.op = "getShardKey"}

MaxReads == 5

\* a caller begins a read; count is history: how many reads were begun before it
StartRouterRead(p) ==
    /\ calls < MaxReads
    /\ \E k \in KVKeys :
          \/ Begin(p, "direct", [NoLoc EXCEPT !.op = "readFromShard", !.count = calls],
                   CallReadFromShard(k))
          \/ Begin(p, "direct", [NoLoc EXCEPT !.op = "mget", !.count = calls],
                   CallMget({k}))
    /\ GetReadClient
    /\ UNCHANGED <<store, nodeVars, faults, expiries, adapter, socket, timer>>

NextRouter ==
    \/ \E p \in Procs : StartRouterRead(p)
    \/ \E p \in Procs : ReturnDirect(p)
    \/ \E p \in Procs : ReadFromShardGet(p) \/ Mget(p)
    \/ \E p \in Procs : ReadFromShardGetFail(p) \/ MgetFail(p)
    \/ \E p \in Procs : ReadFromShardFallback(p) \/ ReadFromShardFallbackFail(p)

SpecRouter == InitKV /\ [][NextRouter]_vars

\* the reads whose client getReadClient has returned and which are not answered yet
ReadsSent == {p \in Procs : sub[p].fn \in {"readFromShard", "mget"} /\ sub[p].state = "run"}

\* C20: the read cursor is always in [0, 3); the k-th call of getReadClient
\* (k = 0, 1, ...) returns replica k mod 3 and leaves the cursor at (k + 1) mod 3,
\* whichever of readFromShard and mget made it and however the callers interleave;
\* so calls less than 3 apart return different replicas.
ReadClientRoundRobin ==
    /\ currentReadIndex \in ReplicaIdx
    /\ currentReadIndex = calls % NumReplicas
    /\ \A p \in ReadsSent :
          /\ sub[p].served = loc[p].count % NumReplicas
          /\ \A q \in ReadsSent \ {p} :
                /\ loc[q].count # loc[p].count
                /\ (loc[q].count - loc[p].count \in 1..(NumReplicas - 1)) =>
                      sub[q].served # sub[p].served

\* C20 witness: the fourth call of getReadClient, made by mget while a readFromShard
\* is unanswered, has returned replica 0 again
CursorWrappedAround ==
    \E p, q \in ReadsSent :
        /\ loc[p].op = "mget" /\ loc[p].count = NumReplicas /\ sub[p].served = 0
        /\ loc[q].op = "readFromShard" /\ loc[q].count = NumReplicas - 1

(***************************************************************************)
(* SocketStateService (services/socketStateService.js) over the client of  *)
(* utils/redisClient.  The client keeps values as serialized text and      *)
(* parses them on read; its commands (setEx, get, del, keys, sadd, srem)   *)
(* are each one step at the backend and each may be rejected.  A handler   *)
(* is split at its awaits: the step that executes the awaited command also *)
(* runs the handler up to its next await or to its return.                 *)
(***************************************************************************)
CONNECTED_USERS_PREFIX == "socket:connected_users:"
STREAMING_SESSIONS_PREFIX == "socket:streaming_sessions:"
USER_ROOMS_PREFIX == "socket:user_rooms:"
MESSAGE_QUEUES_PREFIX == "socket:message_queues:"
MESSAGE_RETRIES_PREFIX == "socket:message_retries:"
ROOM_USERS_PREFIX == "socket:room_users:"

DEFAULT_TTL == 86400
QUEUE_TTL == 3600
SESSION_TTL == 7200

ConnectedUserKey(userId) == <<CONNECTED_USERS_PREFIX, userId, 0>>
SessionKey(messageId) == <<STREAMING_SESSIONS_PREFIX, messageId, 0>>
UserRoomKey(userId) == <<USER_ROOMS_PREFIX, userId, 0>>
\* queueKey is `${roomId}:${userId}`
QueueKey(roomId, userId) == <<MESSAGE_QUEUES_PREFIX, roomId, userId>>
RetryKey(roomId, userId) == <<MESSAGE_RETRIES_PREFIX, roomId, userId>>
RoomUsersKey(roomId) == <<ROOM_USERS_PREFIX, roomId, 0>>

\* a plain object with the fields DOMAIN rec, and a set of members
ObjVal(rec) == [t |-> "obj", rec |-> rec]
SetVal(members) == [t |-> "set", members |-> members]

\* every field of b overrides, the old fields are dropped
Spread_replace(a, b) == b

\* { ...a, ...b }: the fields of b override, the other fields of a are kept
Spread(a, b) ==
    ObjVal([f \in DOMAIN a.rec \cup DOMAIN b.rec |->
               IF f \in DOMAIN b.rec THEN b.rec[f] ELSE a.rec[f]])

\* !value
Falsy(value) == value.t = "null"

\* redisClient.setEx(key, seconds, value), get(key), del(key), keys(prefix + '*')
RedisClientSetEx(kv, key, seconds, value) ==
    NodeSetEx(kv, key, seconds, JSONstringify(value), 0)
RedisClientGet(kv, key) ==
    IF NodeHas(kv, key) THEN JSONparse(NodeGet(kv, key)) ELSE NullVal
RedisClientDel(kv, key) == NodeDel(kv, {key})
RedisClientKeys(kv, prefix) == {k \in DOMAIN kv : k[1] = prefix}

\* redisClient.srem(key, member): the set under key without member
RedisClientSrem(kv, key, member) ==
    IF NodeHas(kv, key)
    THEN IF kv[key].text.members \ {member} = {}
         THEN NodeDel(kv, {key})
         ELSE [kv EXCEPT ![key].text = SetVal(kv[key].text.members \ {member})]
    ELSE kv

\* what the socket-state handlers leave alone
socketRest == <<store, primary, replica, pending, currentReadIndex, pc, loc, sub, done,
                written, wseq, expiries, adapter, timer>>

\* caller p has no call running
Free(p) == socket.run[p].at \in {"idle", "done"}

\* caller p begins the call c: the handler runs up to its first await
StartCall(p, c) ==
    /\ Free(p)
    /\ calls < MaxCalls
    /\ calls' = calls + 1
    /\ socket' = [socket EXCEPT !.run[p] = c]
    /\ UNCHANGED <<faults, socketRest>>

\* the command caller p awaits at label is executed: the store becomes kv and
\* the handler goes on as c
Reply(p, label, kv, c) ==
    /\ socket.run[p].at = label
    /\ socket' = [socket EXCEPT !.kv = kv, !.run[p] = c]
    /\ UNCHANGED <<calls, faults, socketRest>>

\* the command caller p awaits at label is rejected: the handler goes on as c
Reject(p, label, c) ==
    /\ socket.run[p].at = label
    /\ faults < MaxFaults
    /\ faults' = faults + 1
    /\ socket' = [socket EXCEPT !.run[p] = [c EXCEPT !.failed = TRUE]]
    /\ UNCHANGED <<calls, socketRest>>

\* the call of p returns ret
Returned(c, ret) == [c EXCEPT !.at = "done", !.ret = ret]

\* setStreamingSession(messageId, sessionData)
StartSetStreamingSession(p, messageId, sessionData) ==
    StartCall(p, [NoCall EXCEPT !.op = "setStreamingSession", !.at = "set_setEx",
                                !.id = messageId, !.arg = sessionData])

\* the remove calls that have deleted the key of messageId see a later set
Followed(run, messageId) ==
    [q \in Procs |->
        IF run[q].op = "removeStreamingSession" /\ run[q].id = messageId
           /\ run[q].at = "done" /\ ~run[q].failed
        THEN [run[q] EXCEPT !.followed = TRUE] ELSE run[q]]

SetStreamingSessionSetEx(p) ==
    LET c == socket.run[p]
        kv == RedisClientSetEx(socket.kv, SessionKey(c.id), SESSION_TTL, c.arg)
    IN  /\ c.at = "set_setEx"
        /\ socket' = [kv |-> kv,
                      run |-> [Followed(socket.run, c.id) EXCEPT
                                  ![p] = Returned([c EXCEPT !.wrote = TRUE,
                                                   !.after = kv[SessionKey(c.id)].text],
                                                  "true")]]
        /\ UNCHANGED <<calls, faults, socketRest>>

SetStreamingSessionFail(p) ==
    Reject(p, "set_setEx", Returned(socket.run[p], "false"))

\* updateStreamingSession(messageId, updates): getStreamingSession first
StartUpdateStreamingSession(p, messageId, updates) ==
    StartCall(p, [NoCall EXCEPT !.op = "updateStreamingSession", !.at = "upd_get",
                                !.id = messageId, !.arg = updates])

\* the session read: no session returns false, a session is merged and set
UpdateStreamingSessionGet(p) ==
    LET c == socket.run[p]
        session == RedisClientGet(socket.kv, SessionKey(c.id))
    IN  Reply(p, "upd_get", socket.kv,
              IF Falsy(session)
              THEN Returned([c EXCEPT !.session = session], "false")
              ELSE [c EXCEPT !.at = "upd_setEx", !.session = session])

\* getStreamingSession caught the error and returned null
UpdateStreamingSessionGetFail(p) ==
    Reject(p, "upd_get", Returned(socket.run[p], "false"))

\* setStreamingSession(messageId, { ...session, ...updates }) and its result
UpdateStreamingSessionSetEx(p) ==
    LET c == socket.run[p]
        updatedSession == Spread(c.session, c.arg)
        kv == RedisClientSetEx(socket.kv, SessionKey(c.id), SESSION_TTL, updatedSession)
    IN  Reply(p, "upd_setEx", kv,
              Returned([c EXCEPT !.wrote = TRUE, !.after = kv[SessionKey(c.id)].text],
                       "true"))

\* setStreamingSession caught the error and returned false
UpdateStreamingSessionSetExFail(p) ==
    Reject(p, "upd_setEx", Returned(socket.run[p], "false"))

\* removeStreamingSession(messageId)
StartRemoveStreamingSession(p, messageId) ==
    StartCall(p, [NoCall EXCEPT !.op = "removeStreamingSession", !.at = "rem_del",
                                !.id = messageId])

RemoveStreamingSessionDel(p) ==
    LET c == socket.run[p]
    IN  Reply(p, "rem_del", RedisClientDel(socket.kv, SessionKey(c.id)),
              Returned([c EXCEPT !.wrote = TRUE], "true"))

RemoveStreamingSessionFail(p) ==
    Reject(p, "rem_del", Returned(socket.run[p], "false"))

\* the TTL of a key of the store runs out
ExpireSocketKey(k) ==
    /\ NodeHas(socket.kv, k)
    /\ expiries < MaxExpiries
    /\ expiries' = expiries + 1
    /\ socket' = [socket EXCEPT !.kv = NodeDel(socket.kv, {k})]
    /\ UNCHANGED <<store, primary, replica, pending, currentReadIndex, pc, loc, sub, done,
                   written, wseq, calls, faults, adapter, timer>>

(***************************************************************************)
(* SpecSession: callers set, update and remove streaming sessions, their   *)
(* calls overlapping; commands may be rejected and a key may expire.       *)
(***************************************************************************)
NumSessions == 1
SessionIds == 1..NumSessions

\* a session as stored, and the partial updates the callers pass
Sessions == {ObjVal([room |-> 1, userId |-> 1, content |-> 0])}
Updates == {ObjVal([content |-> 1]), ObjVal([content |-> 2, done |-> 1])}

\* the store holding the sessions of ids
SessionsOf(ids) ==
    [k \in {SessionKey(i) : i \in ids} |->
        [text |-> JSONstringify(CHOOSE x \in Sessions : TRUE), ttl |-> SESSION_TTL, wid |-> 0]]

\* the repository, the coordinator and the adapter are not used
InitSocket(kvs) ==
    /\ store = <<>>
    /\ primary = EmptyNode
    /\ replica = [r \in ReplicaIdx |-> EmptyNode]
    /\ pending = [r \in ReplicaIdx |-> <<>>]
    /\ currentReadIndex = 0
    /\ written = EmptyNode
    /\ wseq = 0
    /\ pc = [p \in Procs |-> "idle"]
    /\ loc = [p \in Procs |-> NoLoc]
    /\ sub = [p \in Procs |-> NoSub]
    /\ done = [p \in Procs |-> NoDone]
    /\ calls = 0
    /\ faults = 0
    /\ expiries = 0
    /\ adapter = NoAdapter
    /\ timer = NoTimer
    /\ \E kv \in kvs : socket = [NoSocket EXCEPT !.kv = kv]

InitSession == InitSocket({SessionsOf(ids) : ids \in SUBSET SessionIds})

NextSession ==
    \/ \E p \in Procs, i \in SessionIds, x \in Sessions : StartSetStreamingSession(p, i, x)
    \/ \E p \in Procs, i \in SessionIds, u \in Updates : StartUpdateStreamingSession(p, i, u)
    \/ \E p \in Procs, i \in SessionIds : StartRemoveStreamingSession(p, i)
    \/ \E p \in Procs : SetStreamingSessionSetEx(p)
    \/ \E p \in Procs : SetStreamingSessionFail(p)
    \/ \E p \in Procs : UpdateStreamingSessionGet(p)
    \/ \E p \in Procs : UpdateStreamingSessionGetFail(p)
    \/ \E p \in Procs : UpdateStreamingSessionSetEx(p)
    \/ \E p \in Procs : UpdateStreamingSessionSetExFail(p)
    \/ \E p \in Procs : RemoveStreamingSessionDel(p)
    \/ \E p \in Procs : RemoveStreamingSessionFail(p)
    \/ \E i \in SessionIds : ExpireSocketKey(SessionKey(i))

SpecSession == InitSession /\ [][NextSession]_vars

\* the updateStreamingSession calls that have returned
UpdatesDone ==
    {p \in Procs : socket.run[p].op = "updateStreamingSession" /\ socket.run[p].at = "done"}

\* C21: an updateStreamingSession that found no session record returned false and
\* wrote nothing; one that found a record and whose write was accepted returned
\* true and left under the key the shallow merge of the record with the partial
\* fields: every field of the partial with the partial's value, every other field
\* of the record with its old value, and no further field
UpdateMergesOrRefuses ==
    \A p \in UpdatesDone :
        LET c == socket.run[p]
        IN  /\ c.ret \in {"true", "false"}
            /\ Falsy(c.session) => c.ret = "false" /\ ~c.wrote
            /\ c.ret = "false" => ~c.wrote
            /\ ~Falsy(c.session) /\ ~c.failed =>
                  /\ c.ret = "true"
                  /\ c.wrote
                  /\ LET after == JSONparse(c.after).rec
                     IN  /\ DOMAIN after = DOMAIN c.session.rec \cup DOMAIN c.arg.rec
                         /\ \A f \in DOMAIN c.arg.rec : after[f] = c.arg.rec[f]
                         /\ \A f \in DOMAIN c.session.rec \ DOMAIN c.arg.rec :
                               after[f] = c.session.rec[f]

\* C21 witness: an update that overrode content, added done and kept room and userId
SessionMerged ==
    \E p \in UpdatesDone :
        LET c == socket.run[p]
        IN  /\ c.ret = "true"
            /\ "done" \in DOMAIN c.arg.rec
            /\ NodeHas(socket.kv, SessionKey(c.id))
            /\ JSONparse(NodeGet(socket.kv, SessionKey(c.id))) =
                  ObjVal([room |-> 1, userId |-> 1, content |-> 2, done |-> 1])

\* an update that found no session has returned false, and the key is still absent
UpdateRefused ==
    \E p \in UpdatesDone :
        /\ Falsy(socket.run[p].session) /\ ~socket.run[p].failed
        /\ socket.run[p].ret = "false"
        /\ ~NodeHas(socket.kv, SessionKey(socket.run[p].id))

\* the removeStreamingSession calls that have deleted their key and were not
\* followed by a setStreamingSession of the same id
RemovesDone ==
    {q \in Procs : /\ socket.run[q].op = "removeStreamingSession"
                   /\ socket.run[q].at = "done"
                   /\ socket.run[q].ret = "true"
                   /\ ~socket.run[q].followed}

\* C29: once an updateStreamingSession and a removeStreamingSession of the same id
\* have both completed, and no setStreamingSession followed the remove, no session
\* record exists for the id
UpdateNeverRecreatesRemoved ==
    \A p \in UpdatesDone, q \in RemovesDone :
        socket.run[p].id = socket.run[q].id =>
            ~NodeHas(socket.kv, SessionKey(socket.run[q].id))

(***************************************************************************)
(* cleanupUserData(userId) and cleanupRoomData(roomId, userId): the        *)
(* sub-removals are all called before Promise.all is awaited, so each has  *)
(* its first command in flight when the call reaches its await.  A         *)
(* sub-removal is a task [kind, at, key, todo]: at is the command it       *)
(* awaits ("keys", "get", "del", "srem") or the value it returned ("true", *)
(* "false") or "rejected"; key is the key of that command and todo the     *)
(* keys its loop has still to visit.                                       *)
(***************************************************************************)
UserRemovals == {"removeConnectedUser", "removeUserRoom", "removeStreamingSessionsByUser",
                 "removeMessageQueuesByUser", "removeMessageRetriesByUser"}
RoomRemovals == {"removeUserFromRoom", "removeStreamingSessionsByRoomAndUser"}

NoKey == <<"none", 0, 0>>

\* a sub-removal before its first command
NoTask == [kind |-> "none", at |-> "idle", key |-> NoKey, todo |-> {}]

\* the first command of a sub-removal
FirstCommand(kind, roomId, userId) ==
    CASE kind = "removeConnectedUser" ->
            [NoTask EXCEPT !.kind = kind, !.at = "del", !.key = ConnectedUserKey(userId)]
      [] kind = "removeUserRoom" ->
            [NoTask EXCEPT !.kind = kind, !.at = "del", !.key = UserRoomKey(userId)]
      [] kind = "removeUserFromRoom" ->
            [NoTask EXCEPT !.kind = kind, !.at = "srem", !.key = RoomUsersKey(roomId)]
      [] OTHER -> [NoTask EXCEPT !.kind = kind, !.at = "keys"]

\* the keys redisClient.keys(pattern) gives a sub-removal
PatternKeys(kv, kind, userId) ==
    CASE kind = "removeMessageQueuesByUser" ->
            {k \in RedisClientKeys(kv, MESSAGE_QUEUES_PREFIX) : k[3] = userId}
      [] kind = "removeMessageRetriesByUser" ->
            {k \in RedisClientKeys(kv, MESSAGE_RETRIES_PREFIX) : k[3] = userId}
      [] OTHER -> RedisClientKeys(kv, STREAMING_SESSIONS_PREFIX)

\* the sub-removals that read each session before they delete it
ReadsSessions(kind) ==
    kind \in {"removeStreamingSessionsByUser", "removeStreamingSessionsByRoomAndUser"}

\* the loop of a sub-removal goes on to one of the keys left, or returns true
LoopOn(task, todo) ==
    IF todo = {} THEN {[task EXCEPT !.at = "true", !.key = NoKey, !.todo = {}]}
    ELSE {[task EXCEPT !.at = IF ReadsSessions(task.kind) THEN "get" ELSE "del",
                       !.key = k, !.todo = todo \ {k}] : k \in todo}

\* the catch block of a sub-removal rethrows
Caught_rethrow(task) == [task EXCEPT !.at = "rejected"]

\* the catch block of a sub-removal: return false
Caught(task) == [task EXCEPT !.at = "false"]

\* session && session.userId === userId (and session.room === roomId)
SessionMatches(kind, session, roomId, userId) ==
    /\ ~Falsy(session)
    /\ "userId" \in DOMAIN session.rec /\ session.rec.userId = userId
    /\ kind = "removeStreamingSessionsByRoomAndUser" =>
          "room" \in DOMAIN session.rec /\ session.rec.room = roomId

\* await Promise.all([...]); return true -- catch: return false
AfterPromiseAll(c, tasks) ==
    IF \E n \in DOMAIN tasks : tasks[n].at = "rejected"
    THEN Returned([c EXCEPT !.tasks = tasks], "false")
    ELSE IF \A n \in DOMAIN tasks : tasks[n].at \in {"true", "false"}
    THEN Returned([c EXCEPT !.tasks = tasks], "true")
    ELSE [c EXCEPT !.tasks = tasks]

Cleaning(p) == socket.run[p].at = "promise_all"

\* sub-removal n of the call of p goes on as task, the store becoming kv
TaskReply(p, n, kv, task) ==
    /\ socket' = [socket EXCEPT
                     !.kv = kv,
                     !.run[p] = AfterPromiseAll(socket.run[p],
                                    [socket.run[p].tasks EXCEPT ![n] = task])]
    /\ UNCHANGED <<calls, faults, socketRest>>

\* the command sub-removal n of the call of p awaits is rejected
TaskReject(p, n, cmd) ==
    /\ Cleaning(p)
    /\ n \in DOMAIN socket.run[p].tasks
    /\ socket.run[p].tasks[n].at = cmd
    /\ faults < MaxFaults
    /\ faults' = faults + 1
    /\ socket' = [socket EXCEPT
                     !.run[p] = AfterPromiseAll([socket.run[p] EXCEPT !.failed = TRUE],
                                    [socket.run[p].tasks EXCEPT
                                        ![n] = Caught(socket.run[p].tasks[n])])]
    /\ UNCHANGED <<calls, socketRest>>

\* cleanupUserData(userId) at its await of Promise.all
CleanupUserDataCall(userId) ==
    [NoCall EXCEPT !.op = "cleanupUserData", !.at = "promise_all", !.user = userId,
                   !.tasks = [n \in UserRemovals |-> FirstCommand(n, 0, userId)]]

StartCleanupUserData(p, userId) == StartCall(p, CleanupUserDataCall(userId))

StartCleanupRoomData(p, roomId, userId) ==
    StartCall(p, [NoCall EXCEPT !.op = "cleanupRoomData", !.at = "promise_all",
                                !.room = roomId, !.user = userId,
                                !.tasks = [n \in RoomRemovals |->
                                              FirstCommand(n, roomId, userId)]])

\* redisClient.keys(pattern) answered
RemovalKeys(p, n) ==
    /\ Cleaning(p)
    /\ n \in DOMAIN socket.run[p].tasks
    /\ LET c == socket.run[p]
           task == c.tasks[n]
       IN  /\ task.at = "keys"
           /\ \E next \in LoopOn(task, PatternKeys(socket.kv, task.kind, c.user)) :
                 TaskReply(p, n, socket.kv, next)

RemovalKeysFail(p, n) == TaskReject(p, n, "keys")

\* redisClient.get(key) answered inside the loop
RemovalGet(p, n) ==
    /\ Cleaning(p)
    /\ n \in DOMAIN socket.run[p].tasks
    /\ LET c == socket.run[p]
           task == c.tasks[n]
       IN  /\ task.at = "get"
           /\ IF SessionMatches(task.kind, RedisClientGet(socket.kv, task.key), c.room, c.user)
              THEN TaskReply(p, n, socket.kv, [task EXCEPT !.at = "del"])
              ELSE \E next \in LoopOn(task, task.todo) : TaskReply(p, n, socket.kv, next)

RemovalGetFail(p, n) == TaskReject(p, n, "get")

\* redisClient.del(key) answered
RemovalDel(p, n) ==
    /\ Cleaning(p)
    /\ n \in DOMAIN socket.run[p].tasks
    /\ LET task == socket.run[p].tasks[n]
       IN  /\ task.at = "del"
           /\ \E next \in LoopOn(task, task.todo) :
                 TaskReply(p, n, RedisClientDel(socket.kv, task.key), next)

RemovalDelFail(p, n) == TaskReject(p, n, "del")

\* redisClient.srem(key, userId) answered
RemovalSrem(p, n) ==
    /\ Cleaning(p)
    /\ n \in DOMAIN socket.run[p].tasks
    /\ LET c == socket.run[p]
           task == c.tasks[n]
       IN  /\ task.at = "srem"
           /\ TaskReply(p, n, RedisClientSrem(socket.kv, task.key, c.user),
                        [task EXCEPT !.at = "true", !.key = NoKey])

RemovalSremFail(p, n) == TaskReject(p, n, "srem")

(***************************************************************************)
(* SpecCleanup: one caller cleans up after the users of a store that holds *)
(* their records and those of another user; commands may be rejected and   *)
(* session keys may expire.                                                *)
(***************************************************************************)
OtherUser == NumUsers + 1
OtherSession == NumSessions + 1

\* the text the client keeps for value, with the TTL seconds
Entry(value, seconds) == [text |-> JSONstringify(value), ttl |-> seconds, wid |-> 0]

SessionOf(roomId, userId) == ObjVal([room |-> roomId, userId |-> userId, content |-> 0])

\* the records of the users on the rooms, and a session of another user
CleanupData(sessionIds) ==
    [k \in {ConnectedUserKey(u) : u \in Users \cup {OtherUser}}
           \cup {UserRoomKey(u) : u \in Users}
           \cup {SessionKey(i) : i \in sessionIds \cup {OtherSession}}
           \cup {QueueKey(r, u) : r \in Rooms, u \in Users \cup {OtherUser}}
           \cup {RetryKey(r, u) : r \in Rooms, u \in Users}
           \cup {RoomUsersKey(r) : r \in Rooms} |->
        CASE k[1] = CONNECTED_USERS_PREFIX -> Entry(Num(k[2]), DEFAULT_TTL)
          [] k[1] = USER_ROOMS_PREFIX -> Entry(Num(1), DEFAULT_TTL)
          [] k[1] = STREAMING_SESSIONS_PREFIX ->
                Entry(SessionOf(1, IF k[2] = OtherSession THEN OtherUser ELSE 1), SESSION_TTL)
          [] k[1] = MESSAGE_QUEUES_PREFIX -> Entry(Num(1), QUEUE_TTL)
          [] k[1] = MESSAGE_RETRIES_PREFIX -> Entry(Num(1), QUEUE_TTL)
          [] OTHER -> [text |-> SetVal(Users \cup {OtherUser}), ttl |-> DEFAULT_TTL, wid |-> 0]]

InitCleanup == InitSocket({CleanupData(ids) : ids \in SUBSET SessionIds})

NextCleanup ==
    \/ \E p \in SeqProcs, u \in Users : StartCleanupUserData(p, u)
    \/ \E p \in SeqProcs, r \in Rooms, u \in Users : StartCleanupRoomData(p, r, u)
    \/ \E p \in SeqProcs, n \in UserRemovals \cup RoomRemovals : RemovalKeys(p, n)
    \/ \E p \in SeqProcs, n \in UserRemovals \cup RoomRemovals : RemovalKeysFail(p, n)
    \/ \E p \in SeqProcs, n \in UserRemovals \cup RoomRemovals : RemovalGet(p, n)
    \/ \E p \in SeqProcs, n \in UserRemovals \cup RoomRemovals : RemovalGetFail(p, n)
    \/ \E p \in SeqProcs, n \in UserRemovals \cup RoomRemovals : RemovalDel(p, n)
    \/ \E p \in SeqProcs, n \in UserRemovals \cup RoomRemovals : RemovalDelFail(p, n)
    \/ \E p \in SeqProcs, n \in UserRemovals \cup RoomRemovals : RemovalSrem(p, n)
    \/ \E p \in SeqProcs, n \in UserRemovals \cup RoomRemovals : RemovalSremFail(p, n)
    \/ \E i \in SessionIds : ExpireSocketKey(SessionKey(i))

SpecCleanup == InitCleanup /\ [][NextCleanup]_vars

\* the sessions of the store that belong to userId (in roomId, when rooms is a room)
SessionsHeld(userId, rooms) ==
    {k \in RedisClientKeys(socket.kv, STREAMING_SESSIONS_PREFIX) :
        LET session == RedisClientGet(socket.kv, k).rec
        IN  session.userId = userId /\ session.room \in rooms}

\* what sub-removal kind is there to remove is no longer in the store
Removed(kind, roomId, userId) ==
    CASE kind = "removeConnectedUser" -> ~NodeHas(socket.kv, ConnectedUserKey(userId))
      [] kind = "removeUserRoom" -> ~NodeHas(socket.kv, UserRoomKey(userId))
      [] kind = "removeStreamingSessionsByUser" -> SessionsHeld(userId, Rooms) = {}
      [] kind = "removeMessageQueuesByUser" ->
            \A k \in RedisClientKeys(socket.kv, MESSAGE_QUEUES_PREFIX) : k[3] # userId
      [] kind = "removeMessageRetriesByUser" ->
            \A k \in RedisClientKeys(socket.kv, MESSAGE_RETRIES_PREFIX) : k[3] # userId
      [] kind = "removeUserFromRoom" ->
            NodeHas(socket.kv, RoomUsersKey(roomId)) =>
                userId \notin socket.kv[RoomUsersKey(roomId)].text.members
      [] kind = "removeStreamingSessionsByRoomAndUser" -> SessionsHeld(userId, {roomId}) = {}

Cleanups == {p \in Procs : socket.run[p].op \in {"cleanupUserData", "cleanupRoomData"}}

\* C22: a cleanup call has all its sub-removals under way from its first await on
\* (five for cleanupUserData, two for cleanupRoomData); a failed sub-removal
\* returns false to Promise.all and rejects nothing; every sub-removal that
\* returned true has removed what it is there to remove, and that stays removed,
\* whichever of the others failed; the call returns only when all have returned,
\* and it returns true
CleanupIsolatesFailures ==
    \A p \in Cleanups :
        LET c == socket.run[p]
        IN  /\ DOMAIN c.tasks = IF c.op = "cleanupUserData" THEN UserRemovals ELSE RoomRemovals
            /\ \A n \in DOMAIN c.tasks :
                  /\ c.tasks[n].at \in {"keys", "get", "del", "srem", "true", "false"}
                  /\ c.tasks[n].at = "true" => Removed(n, c.room, c.user)
            /\ c.at = "done" <=> \A n \in DOMAIN c.tasks : c.tasks[n].at \in {"true", "false"}
            /\ c.at = "done" => c.ret = "true"

\* C22 witness: a cleanupUserData has returned whose removeStreamingSessionsByUser
\* failed, leaving a session of the user, while the four other sub-removals removed
\* their records and the other user's records are untouched
CleanupSurvivedFailure ==
    \E p \in Cleanups :
        LET c == socket.run[p]
        IN  /\ c.op = "cleanupUserData" /\ c.at = "done" /\ c.ret = "true"
            /\ c.tasks["removeStreamingSessionsByUser"].at = "false"
            /\ SessionsHeld(c.user, Rooms) # {}
            /\ \A n \in UserRemovals \ {"removeStreamingSessionsByUser"} :
                  c.tasks[n].at = "true" /\ Removed(n, c.room, c.user)
            /\ NodeHas(socket.kv, ConnectedUserKey(OtherUser))
            /\ NodeHas(socket.kv, QueueKey(1, OtherUser))

\* a cleanupRoomData has returned whose srem failed and whose sessions were removed
RoomCleanupSurvivedFailure ==
    \E p \in Cleanups :
        LET c == socket.run[p]
        IN  /\ c.op = "cleanupRoomData" /\ c.at = "done" /\ c.ret = "true"
            /\ c.tasks["removeUserFromRoom"].at = "false"
            /\ c.tasks["removeStreamingSessionsByRoomAndUser"].at = "true"
            /\ ~NodeHas(socket.kv, SessionKey(1))
            /\ c.user \in socket.kv[RoomUsersKey(c.room)].text.members

(***************************************************************************)
(* SocketStateService.healthCheck(): probe written, read back and deleted. *)
(***************************************************************************)
HealthKey == <<"socket:health:test", 0, 0>>
HealthTTL == 10

\* the values Date.now() takes in the model
MaxNow == 2
Clock == 1..MaxNow

\* reports success whatever was read
HealthResult_any(result, testValue) == "true"

\* return result === testValue
HealthResult(result, testValue) == IF result = testValue THEN "true" ELSE "false"

\* what the store holds under key (null when nothing)
HeldText(kv, key) == IF NodeHas(kv, key) THEN NodeGet(kv, key) ELSE NullVal

\* testValue = Date.now().toString(); await redisClient.setEx(testKey, 10, testValue)
StartHealthCheck(p, now) ==
    StartCall(p, [NoCall EXCEPT !.op = "healthCheck", !.at = "hc_setEx", !.arg = Str(now)])

HealthCheckSetEx(p) ==
    LET c == socket.run[p]
    IN  Reply(p, "hc_setEx", RedisClientSetEx(socket.kv, HealthKey, HealthTTL, c.arg),
              [c EXCEPT !.at = "hc_get", !.wrote = TRUE])

\* const result = await redisClient.get(testKey)
HealthCheckGet(p) ==
    LET c == socket.run[p]
    IN  Reply(p, "hc_get", socket.kv,
              [c EXCEPT !.at = "hc_del", !.session = RedisClientGet(socket.kv, HealthKey)])

\* await redisClient.del(testKey); return result === testValue
HealthCheckDel(p) ==
    LET c == socket.run[p]
        kv == RedisClientDel(socket.kv, HealthKey)
    IN  Reply(p, "hc_del", kv,
              Returned([c EXCEPT !.after = HeldText(kv, HealthKey)],
                       HealthResult(c.session, c.arg)))

\* a step of the probe was rejected: the catch block returns false
HealthCheckFail(p) ==
    \E label \in {"hc_setEx", "hc_get", "hc_del"} :
        Reject(p, label, Returned([socket.run[p] EXCEPT
                                      !.after = HeldText(socket.kv, HealthKey)], "false"))

InitHealth == InitSocket({EmptyNode})

NextHealth ==
    \/ \E p \in Procs, now \in Clock : StartHealthCheck(p, now)
    \/ \E p \in Procs : HealthCheckSetEx(p)
    \/ \E p \in Procs : HealthCheckGet(p)
    \/ \E p \in Procs : HealthCheckDel(p)
    \/ \E p \in Procs : HealthCheckFail(p)
    \/ ExpireSocketKey(HealthKey)

SpecHealth == InitHealth /\ [][NextHealth]_vars

HealthChecksDone ==
    {p \in Procs : socket.run[p].op = "healthCheck" /\ socket.run[p].at = "done"}

\* C23: a healthCheck returns true or false and never raises; it returns true only
\* when it has written the probe, read back exactly the value it wrote and had its
\* del accepted, the probe key being absent when it returns; a rejected step makes
\* it return false
HealthCheckReportsRoundTrip ==
    \A p \in HealthChecksDone :
        LET c == socket.run[p]
        IN  /\ c.ret \in {"true", "false"}
            /\ c.failed => c.ret = "false"
            /\ c.ret = "true" =>
                  /\ c.wrote /\ ~c.failed
                  /\ c.session = c.arg
                  /\ c.after = NullVal
            /\ ~c.failed /\ c.session = c.arg => c.ret = "true"

\* C23 witness: one probe succeeded and another, overlapping it, read a value it
\* had not written and reported failure without a rejected step
ProbeSucceededAndProbeMismatched ==
    \E p, q \in HealthChecksDone :
        /\ socket.run[p].ret = "true" /\ ~NodeHas(socket.kv, HealthKey)
        /\ socket.run[q].ret = "false" /\ ~socket.run[q].failed
        /\ socket.run[q].session # NullVal
        /\ faults = 0

(***************************************************************************)
(* RedisShardingService.deletePattern(pattern).  A pattern is a key with   *)
(* Wild in the places its '*' covers (the prefix is always literal).       *)
(***************************************************************************)
Wild == -1

KeysVal(ks) == [t |-> "keys", keys |-> ks]

\* the keys client.keys(pattern) finds on node
KeysMatching(node, pattern) ==
    {k \in DOMAIN node : /\ k[1] = pattern[1]
                          /\ \A i \in 2..3 : pattern[i] = Wild \/ k[i] = pattern[i]}

\* const writeKeys = await this.clusters.write.keys(pattern) is sent
CallDeletePattern(pattern) ==
    [NoSub EXCEPT !.fn = "deletePattern", !.state = "run", !.key = pattern]

\* for (const client of this.readReplicas): the last replica asked
LastScanned == NumReplicas - 1

\* the loop over the replicas goes on; after the last one delete(Array.from(allKeys))
\* is called when allKeys is not empty, and Array.from(allKeys) is returned
AfterReplicaKeys(s, allKeys) ==
    IF s.served < LastScanned
    THEN [s EXCEPT !.keys = allKeys, !.served = s.served + 1]
    ELSE IF allKeys = {}
    THEN [s EXCEPT !.keys = allKeys, !.state = "ok", !.val = KeysVal(allKeys)]
    ELSE [CallDelete(allKeys) EXCEPT !.key = s.key, !.val = KeysVal(allKeys)]

\* await this.clusters.write.keys(pattern) resolves; readReplicas[0].keys is sent
DeletePatternPrimaryKeys(p) ==
    /\ Awaiting(p, "deletePattern", "run")
    /\ sub' = [sub EXCEPT ![p].state = "scan", ![p].served = 0,
                          ![p].keys = KeysMatching(primary, sub[p].key)]
    /\ UNCHANGED <<store, primary, replica, pending, currentReadIndex, pc, loc, done,
                   written, wseq, calls, faults, expiries, adapter, socket, timer>>

\* await this.clusters.write.keys(pattern) rejects: catch, throw error
DeletePatternPrimaryKeysFail(p) ==
    /\ Awaiting(p, "deletePattern", "run")
    /\ faults < MaxFaults
    /\ faults' = faults + 1
    /\ sub' = [sub EXCEPT ![p].state = "err"]
    /\ UNCHANGED <<store, primary, replica, pending, currentReadIndex, pc, loc, done,
                   written, wseq, calls, expiries, adapter, socket, timer>>

\* await client.keys(pattern) resolves on the replica asked
DeletePatternReplicaKeys(p) ==
    /\ Awaiting(p, "deletePattern", "scan")
    /\ pending[sub[p].served] = <<>>
    /\ sub' = [sub EXCEPT ![p] =
                  AfterReplicaKeys(sub[p], sub[p].keys \cup
                                     KeysMatching(replica[sub[p].served], sub[p].key))]
    /\ UNCHANGED <<store, primary, replica, pending, currentReadIndex, pc, loc, done,
                   written, wseq, calls, faults, expiries, adapter, socket, timer>>

\* await client.keys(pattern) rejects: the inner catch logs and the loop goes on
DeletePatternReplicaKeysFail(p) ==
    /\ Awaiting(p, "deletePattern", "scan")
    /\ faults < MaxFaults
    /\ faults' = faults + 1
    /\ sub' = [sub EXCEPT ![p] = AfterReplicaKeys(sub[p], sub[p].keys)]
    /\ UNCHANGED <<store, primary, replica, pending, currentReadIndex, pc, loc, done,
                   written, wseq, calls, expiries, adapter, socket, timer>>

(***************************************************************************)
(* SpecPattern: callers delete by pattern on nodes that hold the pages of  *)
(* the rooms, one page being held by the last replica alone; commands may  *)
(* be rejected and keys may expire.  Nothing is written.                   *)
(***************************************************************************)
PatternPages == 0..1
Patterns == {<<"messages", r, Wild>> : r \in Rooms}

\* a node holding the pages ps of every room
PagesNode(ps) ==
    [k \in {BatchKey(r, pg) : r \in Rooms, pg \in ps} |->
        [text |-> JSONstringify(Num(1)), ttl |-> TTL_MESSAGE_BATCH, wid |-> 0]]

\* the matching keys of all nodes
AllMatching(pattern) ==
    KeysMatching(primary, pattern) \cup
    UNION {KeysMatching(replica[r], pattern) : r \in ReplicaIdx}

InitPattern ==
    /\ InitCallers
    /\ store = <<>>
    /\ primary = PagesNode({0})
    /\ replica = [r \in ReplicaIdx |->
                     IF r = NumReplicas - 1 THEN PagesNode(PatternPages) ELSE PagesNode({0})]
    /\ pending = [r \in ReplicaIdx |-> <<>>]
    /\ currentReadIndex = 0
    /\ written = EmptyNode
    /\ wseq = 0

\* cached is history: the matching keys of all nodes when the call began
StartDeletePattern(p, pattern) ==
    /\ calls < MaxCalls
    /\ Begin(p, "direct", [NoLoc EXCEPT !.op = "deletePattern", !.room = pattern[2],
                                        !.cached = KeysVal(AllMatching(pattern)),
                                        !.count = calls],
             CallDeletePattern(pattern))
    /\ UNCHANGED <<store, primary, replica, pending, currentReadIndex,
                   written, wseq, faults, expiries, adapter, socket, timer>>

NextPattern ==
    \/ \E p \in Procs, pattern \in Patterns : StartDeletePattern(p, pattern)
    \/ \E p \in Procs : DeletePatternPrimaryKeys(p)
    \/ \E p \in Procs : DeletePatternPrimaryKeysFail(p)
    \/ \E p \in Procs : DeletePatternReplicaKeys(p)
    \/ \E p \in Procs : DeletePatternReplicaKeysFail(p)
    \/ \E p \in Procs : DeletePrimary(p)
    \/ \E p \in Procs : DeletePrimaryFail(p)
    \/ \E p \in Procs, r \in ReplicaIdx : DeleteReplica(p, r)
    \/ \E p \in Procs, r \in ReplicaIdx : DeleteReplicaFail(p, r)
    \/ \E p \in Procs : ReturnDirect(p)
    \/ \E r \in Rooms, pg \in PatternPages : ExpirePrimary(BatchKey(r, pg))
    \/ \E i \in ReplicaIdx, r \in Rooms, pg \in PatternPages : ExpireReplica(i, BatchKey(r, pg))

SpecPattern == InitPattern /\ [][NextPattern]_vars

\* the deletePattern calls that returned successfully, no call running
PatternsDeleted ==
    {p \in Procs : /\ done[p].call.op = "deletePattern" /\ done[p].status = "ok"
                   /\ \A q \in Procs : pc[q] = "idle"}

\* C24: after deletePattern has returned successfully, nothing being written, no
\* node holds a key matching the pattern, and the list returned is the union of
\* the keys that matched on the primary or on a replica
DeletePatternRemovesUnion ==
    \A p \in PatternsDeleted :
        /\ AllMatching(<<"messages", done[p].call.room, Wild>>) = {}
        /\ done[p].val = done[p].call.cached

\* with no command rejected, no expiry and no other call, deletePattern does remove
\* and return the union, the page held by one replica alone included
DeletePatternRemovesUnionWhenHealthy ==
    \A p \in PatternsDeleted :
        (faults = 0 /\ expiries = 0 /\ calls = 1) =>
            /\ AllMatching(<<"messages", done[p].call.room, Wild>>) = {}
            /\ done[p].val = done[p].call.cached
            /\ BatchKey(done[p].call.room, 1) \in done[p].val.keys

\* a healthy deletePattern has returned
HealthyPatternDeleted ==
    \E p \in PatternsDeleted : faults = 0 /\ expiries = 0 /\ calls = 1

(***************************************************************************)
(* The interval timers of RedisShardingService: startConnectionMonitoring, *)
(* startCacheCleanup, their stop functions and disconnect.  A timer is     *)
(* [id, job]; its callback reads the nodes and keeps no result, so a tick  *)
(* is recorded only as history.                                            *)
(***************************************************************************)
MaxTimers == 3

\* setInterval(job, intervalMs): the timers afterwards, the new handle being created + 1
SetInterval(t, job) ==
    [t EXCEPT !.created = t.created + 1,
              !.active = t.active \cup {[id |-> t.created + 1, job |-> job]}]

\* clearInterval(handle)
ClearInterval(t, handle) == [t EXCEPT !.active = {x \in t.active : x.id # handle}]

\* this.monitoringInterval = setInterval(...)
StartConnectionMonitoringOn(t) ==
    [SetInterval(t, "monitoring") EXCEPT !.monitoringInterval = t.created + 1]

\* if (this.monitoringInterval) { clearInterval(...); this.monitoringInterval = null }
StopConnectionMonitoringOn(t) ==
    IF t.monitoringInterval # 0
    THEN [ClearInterval(t, t.monitoringInterval) EXCEPT !.monitoringInterval = 0]
    ELSE t

\* this.cleanupInterval = setInterval(...)
StartCacheCleanupOn(t) ==
    [SetInterval(t, "cleanup") EXCEPT !.cleanupInterval = t.created + 1]

\* if (this.cleanupInterval) { clearInterval(...); this.cleanupInterval = null }
StopCacheCleanupOn(t) ==
    IF t.cleanupInterval # 0
    THEN [ClearInterval(t, t.cleanupInterval) EXCEPT !.cleanupInterval = 0]
    ELSE t

\* what the timer functions leave alone
timerRest == <<store, primary, replica, pending, currentReadIndex, pc, loc, sub, done,
               written, wseq, calls, faults, expiries, adapter, socket>>

StartConnectionMonitoring ==
    /\ timer.created < MaxTimers
    /\ timer' = [StartConnectionMonitoringOn(timer) EXCEPT !.last = "startConnectionMonitoring"]
    /\ UNCHANGED timerRest

StopConnectionMonitoring ==
    /\ timer' = [StopConnectionMonitoringOn(timer) EXCEPT !.last = "stopConnectionMonitoring"]
    /\ UNCHANGED timerRest

StartCacheCleanup ==
    /\ timer.created < MaxTimers
    /\ timer' = [StartCacheCleanupOn(timer) EXCEPT !.last = "startCacheCleanup"]
    /\ UNCHANGED timerRest

StopCacheCleanup ==
    /\ timer' = [StopCacheCleanupOn(timer) EXCEPT !.last = "stopCacheCleanup"]
    /\ UNCHANGED timerRest

\* disconnect(): both stop functions, then the clients are disconnected (the
\* model keeps no connection state: the nodes are left as they are)
Disconnect ==
    /\ timer' = [StopCacheCleanupOn(StopConnectionMonitoringOn(timer)) EXCEPT
                    !.last = "disconnect"]
    /\ UNCHANGED timerRest

\* the callback of an active timer runs
Tick(x) ==
    /\ x \in timer.active
    /\ timer.ticked # x.id
    /\ timer' = [timer EXCEPT !.ticked = x.id]
    /\ UNCHANGED timerRest

TimerJobs == {"monitoring", "cleanup"}

NextTimer ==
    \/ StartConnectionMonitoring
    \/ StopConnectionMonitoring
    \/ StartCacheCleanup
    \/ StopCacheCleanup
    \/ Disconnect
    \/ \E i \in 1..MaxTimers, job \in TimerJobs : Tick([id |-> i, job |-> job])

SpecTimer == InitKV /\ [][NextTimer]_vars

\* the active timers running job
Running(job) == {x \in timer.active : x.job = job}

\* C25: after stopConnectionMonitoring has returned no timer started by
\* startConnectionMonitoring is active, after stopCacheCleanup none started by
\* startCacheCleanup, and after disconnect none at all, however many times start
\* was called before
StopLeavesNoTimer ==
    /\ timer.last = "stopConnectionMonitoring" => Running("monitoring") = {}
    /\ timer.last = "stopCacheCleanup" => Running("cleanup") = {}
    /\ timer.last = "disconnect" => timer.active = {}

\* a handle kept names an active timer, and a stop clears the handle kept
StopClearsTheHandleKept ==
    /\ timer.monitoringInterval # 0 =>
          [id |-> timer.monitoringInterval, job |-> "monitoring"] \in timer.active
    /\ timer.cleanupInterval # 0 =>
          [id |-> timer.cleanupInterval, job |-> "cleanup"] \in timer.active
    /\ timer.last \in {"stopConnectionMonitoring", "disconnect"} => timer.monitoringInterval = 0
    /\ timer.last \in {"stopCacheCleanup", "disconnect"} => timer.cleanupInterval = 0

(***************************************************************************)
(* CacheService.invalidateRoomCache(roomId) over the RedisClusterClient    *)
(* adapter, whose del(key) has one parameter.                              *)
(***************************************************************************)
RoomInfoKey(roomId) == <<"room", roomId, 0>>
ParticipantsKey(roomId) == <<"participants", roomId, 0>>

\* the array keys: four keys of the room, then the pages 0..9
InvalidateRoomCacheKeys(roomId) ==
    <<RoomInfoKey(roomId), ParticipantsKey(roomId), RecentKey(roomId), CountKey(roomId)>>
        \o [i \in 1..MaxPages |-> BatchKey(roomId, i - 1)]

\* del(key) called as del(...keys): key is the first argument, the others are dropped
DelParameter(args) == args[1]

\* await redisClient.del(...keys): connect() and client.del(key)
InvalidateRoomCache(roomId) ==
    /\ LET a == Connect(adapter)
           key == DelParameter(InvalidateRoomCacheKeys(roomId))
       IN  adapter' = [WithoutHeld(a, key) EXCEPT
                          !.last = [NoOp EXCEPT !.op = "invalidateRoomCache",
                                                !.key = RoomInfoKey(roomId),
                                                !.backend = a.cluster]]
    /\ UNCHANGED repoVars

(***************************************************************************)
(* SpecRoomCache: callers cache room entries through the adapter and       *)
(* invalidate rooms; the backend is healthy.                               *)
(***************************************************************************)
RoomCacheKeys ==
    UNION {{RoomInfoKey(r), RecentKey(r), CountKey(r), BatchKey(r, 0),
            BatchKey(r, MaxPages - 1), BatchKey(r, MaxPages)} : r \in Rooms}

NextRoomCache ==
    \/ AdapterConnect
    \/ \E key \in RoomCacheKeys : AdapterSet(key, Str(JSONstringify(CacheData)), 0)
    \/ \E r \in Rooms : InvalidateRoomCache(r)

SpecRoomCache == InitAdapter /\ [][NextRoomCache]_vars

\* the keys invalidateRoomCache(roomId) is to evict
RoomEntryKeys(roomId) ==
    RoomBatchKeys(roomId, MaxPages) \cup {RecentKey(roomId), CountKey(roomId)}

\* C26: after invalidateRoomCache(roomId) has returned on a healthy backend, no
\* page messages:{roomId}:{p} with p < 10, nor recent:{roomId}, nor
\* msg_count:{roomId} is present in the cache
RoomInvalidationEvictsAll ==
    adapter.last.op = "invalidateRoomCache" =>
        \A k \in RoomEntryKeys(adapter.last.key[2]) : k \notin DOMAIN Held(adapter)

\* what the call does evict: room:{roomId}, the first key of the array
RoomInvalidationEvictsRoomInfo ==
    adapter.last.op = "invalidateRoomCache" =>
        RoomInfoKey(adapter.last.key[2]) \notin DOMAIN Held(adapter)

(***************************************************************************)
(* MessageRepository.invalidateRoomCache(roomId): deletePattern for each   *)
(* of four patterns in turn; page is the index of the pattern awaited.     *)
(***************************************************************************)
RoomPatterns(roomId) ==
    <<<<"messages", roomId, Wild>>, RecentKey(roomId), CountKey(roomId),
      <<"message", Wild, Wild>>>>

StartInvalidateRoomCache(p, roomId) ==
    /\ calls < MaxCalls
    /\ Begin(p, "inv_pattern", [NoLoc EXCEPT !.op = "invalidateRoomCache", !.room = roomId,
                                             !.page = 1],
             CallDeletePattern(RoomPatterns(roomId)[1]))
    /\ UNCHANGED <<store, primary, replica, pending, currentReadIndex,
                   written, wseq, faults, expiries, adapter, socket, timer>>

\* a deletePattern returned: the next pattern, or the end of the loop
InvalidateRoomCacheNext(p) ==
    /\ Settled(p, "inv_pattern")
    /\ sub[p].state = "ok"
    /\ IF loc[p].page < Len(RoomPatterns(loc[p].room))
       THEN Goto(p, "inv_pattern", [loc[p] EXCEPT !.page = loc[p].page + 1],
                 CallDeletePattern(RoomPatterns(loc[p].room)[loc[p].page + 1]))
       ELSE Return(p, "ok", NullVal)
    /\ UNCHANGED <<store, primary, replica, pending, currentReadIndex,
                   written, wseq, calls, faults, expiries, adapter, socket, timer>>

\* a deletePattern threw: the catch block logs, the remaining patterns are skipped
InvalidateRoomCacheFailed(p) ==
    /\ Settled(p, "inv_pattern")
    /\ sub[p].state = "err"
    /\ Return(p, "ok", NullVal)
    /\ UNCHANGED <<store, primary, replica, pending, currentReadIndex,
                   written, wseq, calls, faults, expiries, adapter, socket, timer>>

\* a node holding room entries: pages 0 and 10, the ring, the count and a message
RoomNode ==
    [k \in UNION {{BatchKey(r, 0), BatchKey(r, MaxPages), RecentKey(r), CountKey(r)} :
                     r \in Rooms} \cup {MessageKey(1)} |->
        [text |-> JSONstringify(Num(1)), ttl |-> TTL_MESSAGE_BATCH, wid |-> 0]]

InitRoomPattern ==
    /\ InitCallers
    /\ store = <<>>
    /\ primary = RoomNode
    /\ replica = [r \in ReplicaIdx |-> RoomNode]
    /\ pending = [r \in ReplicaIdx |-> <<>>]
    /\ currentReadIndex = 0
    /\ written = EmptyNode
    /\ wseq = 0

NextRoomPattern ==
    \/ \E p \in Procs, r \in Rooms : StartInvalidateRoomCache(p, r)
    \/ \E p \in Procs : InvalidateRoomCacheNext(p)
    \/ \E p \in Procs : InvalidateRoomCacheFailed(p)
    \/ \E p \in Procs : DeletePatternPrimaryKeys(p)
    \/ \E p \in Procs : DeletePatternPrimaryKeysFail(p)
    \/ \E p \in Procs : DeletePatternReplicaKeys(p)
    \/ \E p \in Procs : DeletePrimary(p)
    \/ \E p \in Procs, r \in ReplicaIdx : DeleteReplica(p, r)

SpecRoomPattern == InitRoomPattern /\ [][NextRoomPattern]_vars

\* the repository's invalidateRoomCache: once it has returned with no command
\* rejected, no entry of the room (any page, ring, count) is left on any node
RepositoryRoomInvalidationEvictsAll ==
    \A p \in Procs :
        (done[p].call.op = "invalidateRoomCache" /\ faults = 0) =>
            \A k \in RoomEntryKeys(done[p].call.room) \cup {BatchKey(done[p].call.room, MaxPages)} :
                /\ ~NodeHas(primary, k)
                /\ \A r \in ReplicaIdx : ~NodeHas(replica[r], k)

RepositoryRoomInvalidated ==
    \E p \in Procs : done[p].call.op = "invalidateRoomCache" /\ faults = 0


(***************************************************************************)
(* SpecFallback: concurrent callers read and write one key through the     *)
(* coordinator while commands are rejected.                                *)
(***************************************************************************)
NextFallback ==
    \/ \E p \in Procs, k \in KVKeys, v \in KVValues : CallsLeft /\ StartWriteThrough(p, k, v)
    \/ \E p \in Procs, k \in KVKeys : CallsLeft /\ StartReadFromShard(p, k)
    \/ \E p \in Procs : ReturnDirect(p)
    \/ \E p \in Procs : WriteThroughPrimary(p)
    \/ \E r \in ReplicaIdx : ReplicaApply(r)
    \/ \E p \in Procs : ReadFromShardGet(p)
    \/ \E p \in Procs : ReadFromShardGetFail(p)
    \/ \E p \in Procs : ReadFromShardFallback(p)
    \/ \E p \in Procs : ReadFromShardFallbackFail(p)

SpecFallback == InitKV /\ [][NextFallback]_vars

\* the replicas whose get was rejected during the readFromShard call s
FailedReplicas(s) == s.todo

\* readFromShard never raises, and returns null once two gets have been rejected
ReadFailureYieldsNull ==
    \A p \in Procs :
        sub[p].fn = "readFromShard" =>
            /\ sub[p].state # "err"
            /\ Cardinality(FailedReplicas(sub[p])) <= 2
            /\ (sub[p].state = "ok" /\ Cardinality(FailedReplicas(sub[p])) = 2)
                  => sub[p].val = NullVal
            /\ sub[p].state = "fallback" => Cardinality(FailedReplicas(sub[p])) = 1

\* C27: a rejected read never reaches the caller: readFromShard never raises;
\* when the get on the selected replica is rejected it sends one get to another
\* replica, and when that is rejected too it returns null, which is what the
\* read handlers receive on a miss.
ReadFailureTriesAnotherReplica ==
    /\ ReadFailureYieldsNull
    /\ \A p \in Procs :
          Awaiting(p, "readFromShard", "fallback") =>
              sub[p].served \notin FailedReplicas(sub[p])

\* a handler that received null from a readFromShard with rejected gets goes on to
\* its store query, as on a miss, without returning or throwing
ReadLabels == {"gm_read", "gc_read", "gb_read", "gr_read"}
StoreLabel(label) ==
    CASE label = "gm_read" -> "gm_store"
      [] label = "gc_read" -> "gc_store"
      [] label = "gb_read" -> "gb_store"
      [] label = "gr_read" -> "gr_store"

FailedReadProceedsAsMiss ==
    [][\A p \in Procs :
          (/\ pc[p] \in ReadLabels
           /\ sub[p].state = "ok"
           /\ FailedReplicas(sub[p]) # {}
           /\ sub[p].val = NullVal
           /\ pc'[p] # pc[p])
              => (pc'[p] = StoreLabel(pc[p]) /\ done'[p] = done[p])]_vars

\* a handler is at its store query after both gets of its cache read were rejected
StoreQueriedAfterFailedRead ==
    \E p \in Procs : pc[p] \in {"gm_store", "gc_store", "gb_store", "gr_store"} /\ faults = 2


\* the replica commands of the write numbered wid that are in flight or applied
ReplicaCommandsOf(wid) ==
    {r \in ReplicaIdx :
        \/ \E i \in 1..Len(pending[r]) : pending[r][i].wid = wid
        \/ \E k \in DOMAIN replica[r] : replica[r][k].wid = wid}

\* the steps that add a replica command belong to a writeThrough whose primary
\* write completes, and a rejected primary write leaves every node and every
\* replica queue as it was and settles the call with the error
PrimaryWriteComesFirst ==
    [][/\ \A r \in ReplicaIdx :
             Len(pending'[r]) > Len(pending[r]) =>
                 \E p \in Procs :
                     /\ Awaiting(p, "writeThrough", "run")
                     /\ sub'[p].state = "ok" /\ sub'[p].wrote
                     /\ NodeHas(primary', sub[p].key)
                     /\ primary'[sub[p].key].wid = pending'[r][Len(pending'[r])].wid
                     /\ primary'[sub[p].key].text = pending'[r][Len(pending'[r])].text
       /\ \A p \in Procs :
             (Awaiting(p, "writeThrough", "run") /\ sub'[p].state = "err") =>
                 /\ pending' = pending
                 /\ replica' = replica
                 /\ primary' = primary
       /\ \A p \in Procs :
             (pc[p] = "direct" /\ sub[p].fn = "writeThrough" /\ sub[p].state = "err"
              /\ pc'[p] = "idle") => done'[p].status = "err"]_vars

\* C28: in writeThrough the primary write comes first: a replica write of a call
\* is issued only by the step in which the call's primary write completes, so
\* every replica command carries the number of a completed primary write; when
\* the primary write is rejected the call raises, and no replica command of it
\* exists.
WriteThroughPrimaryFirst ==
    /\ [](ReplicaCommandsOf(wseq + 1) = {})
    /\ [](\A p \in Procs :
             (sub[p].fn = "writeThrough" /\ ~sub[p].wrote) =>
                 \A r \in ReplicaIdx :
                     /\ \A i \in 1..Len(pending[r]) : pending[r][i].wid <= wseq
                     /\ (primary = EmptyNode /\ wseq = 0) => replica[r] = EmptyNode)
    /\ PrimaryWriteComesFirst

\* C28 witness: a writeThrough whose primary write was rejected has raised to its
\* caller, and no node holds the key and no replica command is in flight
FailedWriteReachedNoReplica ==
    \E p \in Procs :
        /\ done[p].call.op = "writeThrough" /\ done[p].status = "err"
        /\ wseq = 0
        /\ primary = EmptyNode
        /\ \A r \in ReplicaIdx : replica[r] = EmptyNode /\ pending[r] = <<>>


(***************************************************************************)
(* SpecSaveRace: callers save messages to one room concurrently on a       *)
(* healthy, initially empty cache.                                         *)
(***************************************************************************)
NextSaveRace ==
    \/ \E p \in Procs : CallsLeft /\ StartSave(p)
    \/ \E p \in Procs : CacheSteps(p) \/ SaveSteps(p)
    \/ \E r \in ReplicaIdx : ReplicaApply(r)

SpecSaveRace == Init /\ [][NextSaveRace]_vars

\* the node holds under recent:{roomId} a list with the stored message number i
RingHas(node, roomId, i) ==
    /\ NodeHas(node, RecentKey(roomId))
    /\ \E j \in 1..Len(RecentOn(node, roomId)) :
          RecentOn(node, roomId)[j] = ArrivedMessages[i]

\* C30: no lost ring update: once all the saveMessage calls for a room have
\* completed (at most 50 messages, ring initially empty), recent:{roomId} holds
\* every one of the saved messages.
NoLostRingUpdate ==
    (Quiescent /\ Len(store) <= MaxRecent) =>
        \A i \in 1..Len(store) : RingHas(primary, store[i].room, i)

\* two saves have completed and the ring holds both messages
BothSavesInRing ==
    /\ Quiescent
    /\ Len(store) = 2
    /\ \A i \in 1..2 : RingHas(primary, store[i].room, i)


(***************************************************************************)
(* SpecCounter: callers save messages to a room and ask for its message    *)
(* count concurrently, on a healthy, initially empty cache.                *)
(***************************************************************************)
NextCounter ==
    \/ \E p \in Procs : CallsLeft /\ StartSave(p)
    \/ \E p \in Procs, roomId \in Rooms : CallsLeft /\ StartGetMessageCount(p, roomId)
    \/ \E p \in Procs : CacheSteps(p) \/ SaveSteps(p) \/ CountSteps(p)
    \/ \E r \in ReplicaIdx : ReplicaApply(r)

SpecCounter == Init /\ [][NextCounter]_vars

\* the count a node holds under msg_count:{roomId}
CountOn(node, roomId) == JSONparse(NodeGet(node, CountKey(roomId)))

\* C31: counter consistency: once all saveMessage and getMessageCount calls on a
\* room have completed and replication has settled, the cached
\* msg_count:{roomId}, if present, equals the number of messages of the room in
\* the store.
CounterConsistent ==
    Quiescent =>
        \A roomId \in Rooms :
            /\ NodeHas(primary, CountKey(roomId)) =>
                  CountOn(primary, roomId) = Num(CountDocuments(store, roomId))
            /\ \A r \in ReplicaIdx :
                  NodeHas(replica[r], CountKey(roomId)) =>
                      CountOn(replica[r], roomId) = Num(CountDocuments(store, roomId))

\* all calls have completed and the cached count is the number of stored messages
CounterAgreesAfterSaves ==
    /\ Quiescent
    /\ Len(store) = 2
    /\ \A roomId \in Rooms :
          NodeHas(primary, CountKey(roomId))
              /\ CountOn(primary, roomId) = Num(CountDocuments(store, roomId))


(***************************************************************************)
(* SpecPageRace: callers save messages to a room and read its first page   *)
(* concurrently, on a healthy, initially empty cache.                      *)
(***************************************************************************)
NextPageRace ==
    \/ \E p \in Procs : CallsLeft /\ StartSave(p)
    \/ \E p \in Procs, roomId \in Rooms :
          CallsLeft /\ StartGetMessagesBatch(p, roomId, 0, DefaultBatchLimit, 0)
    \/ \E p \in Procs : CacheSteps(p) \/ SaveSteps(p) \/ BatchSteps(p)
    \/ \E r \in ReplicaIdx : ReplicaApply(r)

SpecPageRace == Init /\ [][NextPageRace]_vars

\* the batch a node holds under messages:{roomId}:{page}
BatchOn(node, roomId, page) == JSONparse(NodeGet(node, BatchKey(roomId, page)))

\* the batch the node holds for page 0 of the room has the stored message number i
PageZeroHas(node, roomId, i) ==
    \E j \in 1..Len(BatchOn(node, roomId, 0).messages) :
        BatchOn(node, roomId, 0).messages[j] = ArrivedMessages[i]

\* C32: page-0 invalidation is effective against concurrent readers: once a
\* saveMessage(M) for room R and the concurrent getMessagesBatch(R, 0, limit)
\* calls have completed, the cached messages:R:0, if present, contains M.
PageZeroHoldsSavedMessages ==
    Quiescent =>
        \A i \in 1..Len(store) :
            NodeHas(primary, BatchKey(store[i].room, 0)) =>
                PageZeroHas(primary, store[i].room, i)

\* a save and a first-page read have completed and the cached page holds the message
PageZeroFreshAfterSave ==
    /\ Quiescent
    /\ Len(store) = 1
    /\ NodeHas(primary, BatchKey(store[1].room, 0))
    /\ PageZeroHas(primary, store[1].room, 1)


\* the batch the miss path of getMessagesBatch computes for the arguments of the
\* call c, as it reads once cached
MissPathBatch(c) ==
    JSONForm(BatchResult(FindDesc(store, c.room, c.before, c.limit + 1), c.limit, 0))

\* two batches with the same messages, hasMore and oldestTimestamp
SameBatch(a, b) ==
    /\ a.messages = b.messages
    /\ a.hasMore = b.hasMore
    /\ a.oldestTimestamp = b.oldestTimestamp

\* C33: cache transparency of getMessagesBatch: with the store unchanged, the
\* batch returned on a cache hit for (roomId, page, limit, before) is the batch
\* the miss path returns for these arguments: at most limit messages, each one
\* strictly earlier than before when a cursor is given, and the most recent
\* messages of the room when no cursor is given.
BatchHitEqualsMissPath ==
    \A p \in Procs :
        (done[p].call.op = "getMessagesBatch" /\ done[p].status = "ok" /\ done[p].call.hit) =>
            /\ SameBatch(done[p].val, MissPathBatch(done[p].call))
            /\ Len(done[p].val.messages) <= done[p].call.limit
            /\ done[p].call.before # 0 =>
                  \A j \in 1..Len(done[p].val.messages) :
                      TimeOf(done[p].val.messages[j].timestamp) < done[p].call.before

\* a call without cursor was answered from the cache with what the miss path returns
BatchHitMatchedMissPath ==
    \E p \in Procs :
        /\ done[p].call.op = "getMessagesBatch" /\ done[p].status = "ok" /\ done[p].call.hit
        /\ done[p].call.before = 0
        /\ SameBatch(done[p].val, MissPathBatch(done[p].call))


(***************************************************************************)
(* SpecRingCold: a room that already has messages and whose cache entries  *)
(* have expired; messages are saved and the recent messages are read, one  *)
(* call after the other, and recent:{roomId} may expire on a node.         *)
(***************************************************************************)
NextRingCold ==
    \/ \E p \in SeqProcs, roomId \in Rooms :
          CallsLeft /\ ReplicasSettled /\ StartSaveMessage(p, roomId)
    \/ \E p \in SeqProcs, roomId \in Rooms, limit \in RecentLimits :
          CallsLeft /\ ReplicasSettled /\ StartGetRecentMessages(p, roomId, limit)
    \/ \E p \in Procs : CacheSteps(p) \/ SaveSteps(p) \/ RecentSteps(p)
    \/ \E r \in ReplicaIdx : ReplicaApply(r)
    \/ \E roomId \in Rooms : ExpirePrimary(RecentKey(roomId))
    \/ \E r \in ReplicaIdx, roomId \in Rooms : ExpireReplica(r, RecentKey(roomId))

SpecRingCold == InitCold /\ [][NextRingCold]_vars

\* C34: ring completeness after a cold start: in a sequential history of
\* saveMessage, getRecentMessages and expiry of recent:{roomId},
\* getRecentMessages(roomId, limit) with limit <= 50 returns exactly the
\* min(limit, n) most recent of the n messages stored for the room, also when the
\* ring was absent at a saveMessage into a room that already had messages.
RingCompleteAfterColdStart ==
    \A p \in SeqProcs :
        (/\ pc[p] = "idle"
         /\ done[p].call.op = "getRecentMessages"
         /\ done[p].status = "ok"
         /\ done[p].call.limit <= MaxRecent) =>
            JSONForm(done[p].val) =
                NewestOf(RoomMessages(done[p].call.room), done[p].call.limit)

\* getRecentMessages has returned the most recent messages of a room that had
\* messages before its cache was filled
RecentCompleteFromStore ==
    \E p \in SeqProcs :
        /\ pc[p] = "idle"
        /\ done[p].call.op = "getRecentMessages" /\ done[p].status = "ok"
        /\ done[p].call.limit = DefaultRecentLimit
        /\ Len(JSONForm(done[p].val).list) = DefaultRecentLimit
        /\ JSONForm(done[p].val) =
              NewestOf(RoomMessages(done[p].call.room), done[p].call.limit)


(***************************************************************************)
(* SpecRoomFrame: the repository invalidates the cache of a room while the *)
(* cache also holds the entries of another room.                           *)
(***************************************************************************)
\* a room that is never invalidated, and its one message
OtherRoom == NumRooms + 1
OtherMessage == NumRooms + 1

\* the entries of the other room: its first page, ring, count and message
OtherRoomKeys ==
    {BatchKey(OtherRoom, 0), RecentKey(OtherRoom), CountKey(OtherRoom),
     MessageKey(OtherMessage)}

\* every room has one stored message (message r in room r), and a node holds for
\* every room the first page, the ring, the count and the message
FrameStore == [i \in 1..OtherMessage |-> NewDoc(i, i)]

FrameNode ==
    [k \in UNION {{BatchKey(r, 0), RecentKey(r), CountKey(r), MessageKey(r)} :
                     r \in 1..OtherRoom} |->
        [text |-> JSONstringify(Num(k[2])), ttl |-> TTL_MESSAGE_BATCH, wid |-> 0]]

InitRoomFrame ==
    /\ InitCallers
    /\ store = FrameStore
    /\ primary = FrameNode
    /\ replica = [r \in ReplicaIdx |-> FrameNode]
    /\ pending = [r \in ReplicaIdx |-> <<>>]
    /\ currentReadIndex = 0
    /\ written = EmptyNode
    /\ wseq = 0

NextRoomFrame ==
    \/ \E p \in Procs, r \in Rooms : StartInvalidateRoomCache(p, r)
    \/ \E p \in Procs : InvalidateRoomCacheNext(p)
    \/ \E p \in Procs : DeletePatternPrimaryKeys(p)
    \/ \E p \in Procs : DeletePatternReplicaKeys(p)
    \/ \E p \in Procs : DeletePrimary(p)
    \/ \E p \in Procs, r \in ReplicaIdx : DeleteReplica(p, r)

SpecRoomFrame == InitRoomFrame /\ [][NextRoomFrame]_vars

\* the node holds the key with the text it held at the beginning
Untouched(node, k) == NodeHas(node, k) /\ node[k] = FrameNode[k]

\* C35: frame condition of room invalidation: the repository's
\* invalidateRoomCache(roomId) leaves every cache entry of another room as it
\* was: the message:{id} entries of its messages, its pages, ring and count.
RoomInvalidationLeavesOtherRooms ==
    \A k \in OtherRoomKeys :
        /\ Untouched(primary, k)
        /\ \A r \in ReplicaIdx : Untouched(replica[r], k)

\* the page, ring and count of the other room are left as they were
RoomInvalidationLeavesOtherRoomPages ==
    \A k \in OtherRoomKeys \ {MessageKey(OtherMessage)} :
        /\ Untouched(primary, k)
        /\ \A r \in ReplicaIdx : Untouched(replica[r], k)

\* an invalidateRoomCache has returned
RoomFrameInvalidated ==
    \E p \in Procs : done[p].call.op = "invalidateRoomCache" /\ done[p].status = "ok"


(***************************************************************************)
(* setConnectedUser / getConnectedUser / removeConnectedUser, and the      *)
(* handling of the disconnect of a socket.                                 *)
(***************************************************************************)
\* setConnectedUser(userId, socketId)
StartSetConnectedUser(p, userId, socketId) ==
    StartCall(p, [NoCall EXCEPT !.op = "setConnectedUser", !.at = "scu_setEx",
                                !.user = userId, !.arg = socketId])

SetConnectedUserSetEx(p) ==
    LET c == socket.run[p]
    IN  Reply(p, "scu_setEx",
              RedisClientSetEx(socket.kv, ConnectedUserKey(c.user), DEFAULT_TTL, c.arg),
              Returned([c EXCEPT !.wrote = TRUE], "true"))

\* getConnectedUser(userId) when its get is answered
GetConnectedUser(kv, userId) == RedisClientGet(kv, ConnectedUserKey(userId))

\* removeConnectedUser(userId) at its await of del
RemoveConnectedUserCall(userId) ==
    [NoCall EXCEPT !.op = "removeConnectedUser", !.at = "rcu_del", !.user = userId]

RemoveConnectedUserDel(p) ==
    LET c == socket.run[p]
    IN  Reply(p, "rcu_del", RedisClientDel(socket.kv, ConnectedUserKey(c.user)),
              Returned([c EXCEPT !.wrote = TRUE], "true"))

\* the socket a user is connected with at the beginning, and the one of a reconnect
FirstSocket(userId) == Num(userId)
SecondSocket(userId) == Num(userId + NumUsers + 1)

\* history kept in the call that handles the disconnect of socketId: the socket
\* that disconnected and the mapping of the user when the handling began
DisconnectOf(c, socketId) ==
    [c EXCEPT !.arg = socketId, !.session = GetConnectedUser(socket.kv, c.user)]

\* the disconnect of a socket the user has connected with is handled, by
\* removeConnectedUser(userId) or by cleanupUserData(userId)
StartDisconnect(p, userId, socketId) ==
    /\ socketId = FirstSocket(userId) \/ socketId = GetConnectedUser(socket.kv, userId)
    /\ \E c \in {RemoveConnectedUserCall(userId), CleanupUserDataCall(userId)} :
          StartCall(p, DisconnectOf(c, socketId))

(***************************************************************************)
(* SpecConnected: users connected with their first socket reconnect with a *)
(* second one, and disconnects are handled, one call after the other.      *)
(***************************************************************************)
NextConnected ==
    \/ \E p \in SeqProcs, u \in Users : StartSetConnectedUser(p, u, SecondSocket(u))
    \/ \E p \in SeqProcs, u \in Users :
          \E s \in {FirstSocket(u), SecondSocket(u)} : StartDisconnect(p, u, s)
    \/ \E p \in SeqProcs : SetConnectedUserSetEx(p)
    \/ \E p \in SeqProcs : RemoveConnectedUserDel(p)
    \/ \E p \in SeqProcs, n \in UserRemovals : RemovalKeys(p, n)
    \/ \E p \in SeqProcs, n \in UserRemovals : RemovalGet(p, n)
    \/ \E p \in SeqProcs, n \in UserRemovals : RemovalDel(p, n)

SpecConnected == InitCleanup /\ [][NextConnected]_vars

\* the calls that have handled a disconnect
DisconnectsHandled ==
    {p \in Procs : /\ socket.run[p].op \in {"removeConnectedUser", "cleanupUserData"}
                   /\ socket.run[p].at = "done"}

\* C36: the connected-user mapping survives a stale disconnect: when the user
\* has reconnected with socket s2 and the disconnect of the earlier socket s1 is
\* handled afterwards (removeConnectedUser or cleanupUserData), getConnectedUser
\* still returns s2.
StaleDisconnectKeepsMapping ==
    \A p \in DisconnectsHandled :
        LET c == socket.run[p]
        IN  (c.session = SecondSocket(c.user) /\ c.arg = FirstSocket(c.user)) =>
                GetConnectedUser(socket.kv, c.user) = SecondSocket(c.user)

\* the disconnect of the socket the mapping names has removed the mapping
NamedSocketDisconnected ==
    \E p \in DisconnectsHandled :
        /\ socket.run[p].session = socket.run[p].arg
        /\ GetConnectedUser(socket.kv, socket.run[p].user) = NullVal


\* isUserInRoom(roomId, userId): redisClient.sismember(key, userId)
IsUserInRoom(kv, roomId, userId) ==
    NodeHas(kv, RoomUsersKey(roomId)) /\ userId \in kv[RoomUsersKey(roomId)].text.members

\* C37: after cleanupUserData(userId) has completed with every sub-removal
\* successful, no connection-state record refers to the user: no connected-user
\* and no user-room record, no streaming session, queue marker or retry counter
\* of the user, and no presence set socket:room_users:{roomId} contains the user.
CleanupLeavesNoTraceOfUser ==
    \A p \in Cleanups :
        LET c == socket.run[p]
        IN  (/\ c.op = "cleanupUserData" /\ c.at = "done"
             /\ \A n \in DOMAIN c.tasks : c.tasks[n].at = "true") =>
                /\ \A n \in UserRemovals : Removed(n, c.room, c.user)
                /\ \A r \in Rooms : ~IsUserInRoom(socket.kv, r, c.user)

\* after such a cleanupUserData the records its five sub-removals are there to
\* remove are gone
CleanupRemovesKeyedRecords ==
    \A p \in Cleanups :
        LET c == socket.run[p]
        IN  (/\ c.op = "cleanupUserData" /\ c.at = "done"
             /\ \A n \in DOMAIN c.tasks : c.tasks[n].at = "true") =>
                \A n \in UserRemovals : Removed(n, c.room, c.user)

\* a cleanupUserData has completed with every sub-removal successful
CleanupFullySucceeded ==
    \E p \in Cleanups :
        /\ socket.run[p].op = "cleanupUserData" /\ socket.run[p].at = "done"
        /\ \A n \in DOMAIN socket.run[p].tasks : socket.run[p].tasks[n].at = "true"


\* C38: on a healthy backend healthCheck returns true, also when several health
\* checks run concurrently: no command is rejected and the probe key does not
\* expire, and every completed check has returned true.
ConcurrentHealthChecksSucceed ==
    (faults = 0 /\ expiries = 0) =>
        \A p \in HealthChecksDone : socket.run[p].ret = "true"

\* a health check that ran without another one in progress returned true
LoneHealthCheckSucceeded ==
    \E p \in HealthChecksDone :
        /\ faults = 0 /\ expiries = 0
        /\ socket.run[p].ret = "true"
        /\ \A q \in Procs \ {p} : socket.run[q].op = "none"


\* C39: when the get on the replica selected by readFromShard is rejected, the
\* fallback get goes to a replica different from the one that has just failed,
\* also when other readFromShard calls advance the round-robin cursor between
\* the rejected get and the fallback.
FallbackAvoidsFailedReplica ==
    [][\A p \in Procs :
          (Awaiting(p, "readFromShard", "run") /\ sub'[p].state = "fallback") =>
              sub'[p].served # sub[p].served]_vars

\* a fallback get was sent to a replica other than the one that failed
FallbackWentElsewhere ==
    \E p \in Procs :
        /\ Awaiting(p, "readFromShard", "fallback")
        /\ sub[p].served \notin FailedReplicas(sub[p])


\* C40: adapter mode flag consistency: in every reachable state of the adapter,
\* whatever the sequence of connect, quit, operations and cluster errors, useMock
\* is true if and only if the active client, when there is one, is the in-memory
\* fallback, so that set with a TTL uses the call form of the active client.
UseMockMatchesActiveClient ==
    /\ adapter.cluster # "null" => (adapter.useMock <=> adapter.cluster = "mock")
    /\ (adapter.last.op = "set" /\ adapter.last.backend = "cluster") => ~adapter.useMock

\* the flag is never lowered, and a fallback client is active only with the flag set
UseMockSetWithFallback ==
    /\ [](adapter.cluster = "mock" => adapter.useMock)
    /\ [][adapter.useMock => adapter'.useMock]_vars

\* the fallback is active after a cluster error, the flag being set
FallbackActiveAfterError ==
    adapter.demoted /\ adapter.cluster = "mock" /\ adapter.useMock

====
